---------------------------- MODULE Spec2Model ----------------------------
(***************************************************************************)
(* A model of the dockerust registry: the content-addressed blob store,    *)
(* the chunked upload state machine, the manifest store and the            *)
(* mark-and-sweep garbage collector, over an explicit model of the         *)
(* storage directory.                                                      *)
(*                                                                         *)
(* Strings are sequences of tokens.  A token is an atom that stands for a  *)
(* non-empty piece of text without ':' and without '/', or for one of      *)
(* these two separators.  Paths, digests, link files and blob contents are *)
(* all such strings, so the code's parsing, formatting and path building   *)
(* are computed on them.                                                   *)
(***************************************************************************)
EXTENDS Integers, Sequences, FiniteSets, TLC

VARIABLES
    fs,        \* the storage directory
    resp,      \* the last request that was answered, and its response
    budget,    \* the requests the run may still make
    inflight   \* the requests that are being served, each with its position

vars == <<fs, resp, budget, inflight>>

(***************************************************************************)
(* Bounds of the model.                                                    *)
(***************************************************************************)
MaxSteps == 3        \* requests in one run of the manifest store
MaxPuts == 2         \* manifest PUT requests in one run
MaxDeletes == 1      \* manifest DELETE requests and restarts in one run
MaxUploadSteps == 5  \* requests in one run of the upload state machine
MaxUploads == 2      \* upload sessions started in one run
MaxFileLen == 2      \* tokens in one upload session file
MaxRequests == 3     \* requests in one run of the concurrent server
MaxThreads == 2      \* requests the server handles at the same time
StackDepth == 4      \* nesting of manifest lists the GC's recursion survives
MaxFillings == 2     \* requests that fill one store that is queried
MaxDigestLen == 5    \* tokens in one string that is parsed as a digest

(***************************************************************************)
(* Sequence helpers.                                                       *)
(***************************************************************************)
Range(s) == {s[i] : i \in DOMAIN s}

Reverse(s) == [i \in 1..Len(s) |-> s[Len(s) + 1 - i]]

RECURSIVE SetToSeq(_)
SetToSeq(S) ==
    IF S = {} THEN <<>>
    ELSE LET x == CHOOSE y \in S : TRUE IN <<x>> \o SetToSeq(S \ {x})

\* The orders in which the file system may hand out the entries of a directory.
ReadDirOrders == {"fwd", "rev"}

OrderSeq(S, rd) == IF rd = "fwd" THEN SetToSeq(S) ELSE Reverse(SetToSeq(S))

RECURSIVE Flatten(_)
Flatten(ss) == IF ss = <<>> THEN <<>> ELSE Head(ss) \o Flatten(Tail(ss))

(***************************************************************************)
(* Strings.                                                                *)
(***************************************************************************)
\* The number of characters of the tokens that do not stand for a 64
\* character hex string.
NamedLen ==
    [t \in {":", "/", "a", "b", "ab", "abc", "v1", "v2", "u1", "u2", "sha256",
            "sha256x", "md5", "app", "sub", "lib"} |->
        CASE t \in {":", "/", "a", "b"} -> 1
          [] t \in {"ab", "v1", "v2", "u1", "u2"} -> 2
          [] t \in {"abc", "md5", "app", "sub", "lib"} -> 3
          [] t = "sha256" -> 6
          [] OTHER -> 7]

TokLen(t) == IF t \in DOMAIN NamedLen THEN NamedLen[t] ELSE 64

RECURSIVE StrLen(_)
StrLen(s) == IF s = <<>> THEN 0 ELSE TokLen(Head(s)) + StrLen(Tail(s))

\* str::starts_with("sha256")
StartsWithSha256(s) == s # <<>> /\ s[1] \in {"sha256", "sha256x"}

\* The byte order of the tokens that repository names are made of.
NameTokens == <<"/", "app", "lib", "sub">>

TokRank(t) == CHOOSE i \in 1..Len(NameTokens) : NameTokens[i] = t

RECURSIVE LexLess(_, _)
LexLess(s, t) ==
    IF t = <<>> THEN FALSE
    ELSE IF s = <<>> THEN TRUE
    ELSE IF Head(s) = Head(t) THEN LexLess(Tail(s), Tail(t))
    ELSE TokRank(Head(s)) < TokRank(Head(t))

\* Vec<String>::sort
SortStrings(list) == SortSeq(list, LexLess)

(***************************************************************************)
(* Paths and the file system primitives of std::fs.  The storage path is   *)
(* the empty path; every other path is relative to it.                     *)
(***************************************************************************)
join(p, s) == IF p = <<>> THEN s ELSE p \o <<"/">> \o s

Slashes(p) == {i \in DOMAIN p : p[i] = "/"}

Max(S) == CHOOSE x \in S : \A y \in S : y <= x

parent(p) == IF Slashes(p) = {} THEN <<>> ELSE SubSeq(p, 1, Max(Slashes(p)) - 1)

file_name(p) ==
    IF Slashes(p) = {} THEN p ELSE SubSeq(p, Max(Slashes(p)) + 1, Len(p))

\* p and all its ancestors below the storage path
Ancestors(p) ==
    {SubSeq(p, 1, i) : i \in {j \in DOMAIN p : j = Len(p) \/ p[j + 1] = "/"}}

IsUnder(q, p) ==
    \/ q = p
    \/ p = <<>>
    \/ Len(q) > Len(p) /\ SubSeq(q, 1, Len(p)) = p /\ q[Len(p) + 1] = "/"

is_dir(f, p) == p \in f.dirs

is_file(f, p) == p \in DOMAIN f.files

exists(f, p) == is_dir(f, p) \/ is_file(f, p)

\* q is p joined with one more component
IsEntryOf(q, p) ==
    /\ IsUnder(q, p)
    /\ q # p
    /\ \A i \in (IF p = <<>> THEN 1 ELSE Len(p) + 2)..Len(q) : q[i] # "/"

\* the entries of directory p, as full paths
read_dir(f, p) == {q \in f.dirs \cup DOMAIN f.files : IsEntryOf(q, p)}

create_dir_all(f, p) == [f EXCEPT !.dirs = @ \cup Ancestors(p)]

Restrict(g, S) == [x \in S |-> g[x]]

write(f, p, content) ==
    [f EXCEPT !.files = [q \in DOMAIN @ \cup {p} |-> IF q = p THEN content ELSE @[q]]]

remove_file(f, p) == [f EXCEPT !.files = Restrict(@, DOMAIN @ \ {p})]

remove_dir(f, p) == [f EXCEPT !.dirs = @ \ {p}]

remove_dir_all(f, p) ==
    [dirs |-> {q \in f.dirs : ~IsUnder(q, p)},
     files |-> Restrict(f.files, {q \in DOMAIN f.files : ~IsUnder(q, p)})]

\* a faulty rename, which leaves the destination empty: the properties must
\* notice it
RenameEmpty(f, from, to) == remove_file(write(f, to, <<>>), from)

rename(f, from, to) == remove_file(write(f, to, f.files[from]), from)

\* the storage path exists when the server starts, and holds nothing
EmptyFs == [dirs |-> {<<>>}, files |-> [p \in {} |-> <<>>]]


(***************************************************************************)
(* std::io::Result: [ok |-> TRUE, v |-> value] or Err.                     *)
(***************************************************************************)
Ok(v) == [ok |-> TRUE, v |-> v]

Err == [ok |-> FALSE, why |-> "io"]

\* the recursion ran out of stack: the process is killed
StackOverflow == [ok |-> FALSE, why |-> "stack"]

\* Option<T>: None is the empty sequence, Some(x) is <<x>>.
None == <<>>

Some(x) == <<x>>

\* the `?` operator: an Err is returned at once, the value of an Ok goes on
Try(r, Then(_)) == IF r.ok THEN Then(r.v) ELSE r

(***************************************************************************)
(* File contents and sha256sum.  A content is a string of content tokens:  *)
(* "a" and "b" are bytes, the other tokens each stand for the whole text   *)
(* of one JSON document.  sha256 is collision free: the hex string of a    *)
(* content is the numeral of its position among all contents.              *)
(***************************************************************************)
ContentTokens ==
    <<"a", "b", "M1", "M2", "ML", "MU", "L2", "L3", "L4", "LA1", "LA2", "LB", "LS1", "LS2">>

TokCode(t) == CHOOSE i \in 1..Len(ContentTokens) : ContentTokens[i] = t

RECURSIVE Code(_)
Code(c) ==
    IF c = <<>> THEN 0
    ELSE Code(SubSeq(c, 1, Len(c) - 1)) * (Len(ContentTokens) + 1) + TokCode(c[Len(c)])

\* sha256 of the empty input, abbreviated
EmptyHex == "e3b0c442"

\* utils::sha256sum and utils::sha256sum_str: the hex string of the content
sha256sum(content) == IF content = <<>> THEN <<EmptyHex>> ELSE <<ToString(Code(content))>>

(***************************************************************************)
(* storage.rs: BlobReference                                               *)
(***************************************************************************)
BASE_PATH == <<"docker", "/", "registry", "/", "v2">>

from_sha256sum(hash) == [alg |-> <<"sha256">>, hash |-> hash]

\* a faulty from_str, which splits at every ':' and keeps the first two
\* parts: the properties must notice it
FromStrSplit(content) ==
    LET colons == {i \in DOMAIN content : content[i] = ":"}
        first == CHOOSE i \in colons : \A j \in colons : i <= j
        ends == (colons \ {first}) \cup {Len(content) + 1}
        second == CHOOSE i \in ends : \A j \in ends : i <= j
        split1 == SubSeq(content, first + 1, second - 1)
    IN  IF colons = {} THEN Err
        ELSE IF StrLen(split1) <= 2 THEN Err
        ELSE Ok([alg |-> SubSeq(content, 1, first - 1), hash |-> split1])

\* impl FromStr for BlobReference: content.splitn(2, ':')
from_str(content) ==
    LET colons == {i \in DOMAIN content : content[i] = ":"}
        first == CHOOSE i \in colons : \A j \in colons : i <= j
        split1 == SubSeq(content, first + 1, Len(content))
    IN  IF colons = {} THEN Err
        ELSE IF StrLen(split1) <= 2 THEN Err
        ELSE Ok([alg |-> SubSeq(content, 1, first - 1), hash |-> split1])

is_valid_reference(r) == from_str(r).ok

to_digest(b) == b.alg \o <<":">> \o b.hash

from_file(f, path) == IF is_file(f, path) THEN from_str(f.files[path]) ELSE Err

from_docker_blob_ref(r) == from_str(r.digest)

\* &self.hash[..2]: the first two characters of the hash, one path component
HashPrefix2(hash) == <<"[..2]">> \o hash

data_path(b) ==
    join(join(join(join(join(BASE_PATH, <<"blobs">>), b.alg), HashPrefix2(b.hash)),
              b.hash), <<"data">>)

\* a faulty is_empty_ref, which knows no empty blob: the properties must
\* notice it
NeverEmptyRef(b) == FALSE

is_empty_ref(b) == b.alg = <<"sha256">> /\ b.hash = <<EmptyHex>>

(***************************************************************************)
(* storage.rs: DockerImage.  An image is its repository name.              *)
(***************************************************************************)
image_path(image) == join(join(BASE_PATH, <<"repositories">>), image)

tags_path(image) == join(image_path(image), <<"_manifests", "/", "tags">>)

revisions_path(image) == join(image_path(image), <<"_manifests", "/", "revisions">>)

manifest_tag_link_path(image, manifest_ref) ==
    join(join(tags_path(image), manifest_ref), <<"current", "/", "link">>)

manifest_revision_path(image, blob) ==
    join(join(join(revisions_path(image), blob.alg), blob.hash), <<"link">>)

upload_storage_path(image, uuid) == join(join(image_path(image), <<"_uploads">>), uuid)

\* the file names of directory entries
FileNames(entries) == [i \in DOMAIN entries |-> file_name(entries[i])]

\* the tags, in the order the directory is read
tags_list(f, image, rd) ==
    IF ~exists(f, tags_path(image)) THEN <<>>
    ELSE SelectSeq(FileNames(OrderSeq(read_dir(f, tags_path(image)), rd)),
                   LAMBDA tag : /\ is_dir(f, join(tags_path(image), tag))
                                /\ exists(f, manifest_tag_link_path(image, tag)))

RECURSIVE TagsAttached(_, _, _, _, _)
\* the loop of get_tags_attached_to_manifest_blob over the tags still to read
TagsAttached(f, image, b, tags, list) ==
    IF tags = <<>> THEN Ok(list)
    ELSE Try(from_file(f, manifest_tag_link_path(image, Head(tags))),
             LAMBDA blob : TagsAttached(f, image, b, Tail(tags),
                                        IF blob = b THEN Append(list, Head(tags))
                                        ELSE list))

get_tags_attached_to_manifest_blob(f, image, b, rd) ==
    TagsAttached(f, image, b, tags_list(f, image, rd), <<>>)

RECURSIVE RevisionLinks(_, _, _)
\* the loop of manifests_revision_list over the entries still to read
RevisionLinks(f, entries, list) ==
    IF entries = <<>> THEN Ok(list)
    ELSE IF is_dir(f, Head(entries)) /\ exists(f, join(Head(entries), <<"link">>))
         THEN Try(from_file(f, join(Head(entries), <<"link">>)),
                  LAMBDA blob : RevisionLinks(f, Tail(entries), Append(list, blob)))
    ELSE RevisionLinks(f, Tail(entries), list)

manifests_revision_list(f, image, rd) ==
    IF ~exists(f, join(revisions_path(image), <<"sha256">>)) THEN Ok(<<>>)
    ELSE RevisionLinks(f, OrderSeq(read_dir(f, join(revisions_path(image), <<"sha256">>)),
                                   rd), <<>>)


(***************************************************************************)
(* docker.rs: the JSON documents.  Each document token stands for one      *)
(* JSON text; serde_json::from_str of any other content fails.             *)
(***************************************************************************)
MT_MANIFEST == "application/vnd.docker.distribution.manifest.v2+json"

MT_LIST == "application/vnd.docker.distribution.manifest.list.v2+json"

\* a media type that get_manifest and get_manifests_list do not know
MT_OCI == "application/vnd.oci.image.manifest.v1+json"

\* the DockerBlobRef naming the blob that holds `content`
RefTo(content) ==
    [mediaType |-> "application/octet-stream",
     digest |-> to_digest(from_sha256sum(sha256sum(content)))]

\* a manifest list that names the blobs holding the given contents
ListOf(contents) ==
    [mediaType |-> MT_LIST, config |-> None, layers |-> None,
     manifests |-> Some([i \in DOMAIN contents |-> RefTo(contents[i])])]

\* M1 and M2 are image manifests, MU is an image manifest of a media type
\* the registry does not know, ML lists M1 and M2, L2 lists ML, L3 lists L2
\* and L4 lists L3; LB lists the blob that is named after the bytes LA1.
Documents ==
    [t \in {"M1", "M2", "ML", "MU", "L2", "L3", "L4", "LB"} |->
        CASE t = "M1" -> [mediaType |-> MT_MANIFEST,
                          config |-> Some(RefTo(<<"a">>)),
                          layers |-> Some(<<RefTo(<<"b">>)>>),
                          manifests |-> None]
          [] t = "M2" -> [mediaType |-> MT_MANIFEST,
                          config |-> Some(RefTo(<<"b">>)),
                          layers |-> Some(<<RefTo(<<"a">>), RefTo(<<"a", "b">>)>>),
                          manifests |-> None]
          [] t = "MU" -> [mediaType |-> MT_OCI,
                          config |-> Some(RefTo(<<"a">>)),
                          layers |-> Some(<<RefTo(<<"b">>)>>),
                          manifests |-> None]
          [] t = "ML" -> ListOf(<<<<"M1">>, <<"M2">>>>)
          [] t = "L2" -> ListOf(<<<<"ML">>>>)
          [] t = "L3" -> ListOf(<<<<"L2">>>>)
          [] t = "L4" -> ListOf(<<<<"L3">>>>)
          [] OTHER    -> ListOf(<<<<"LA1">>>>)]

\* JSON texts of two pieces: LA1 LA2 is a list that names LB, LS1 LS2 is a
\* list that names the blob that is named after the bytes LS1.
TornDocuments ==
    [c \in {<<"LA1", "LA2">>, <<"LS1", "LS2">>} |->
        IF c = <<"LA1", "LA2">> THEN ListOf(<<<<"LB">>>>) ELSE ListOf(<<<<"LS1">>>>)]

\* serde_json::from_str::<DockerManifestOrManifestList>
serde_json_from_str(content) ==
    IF Len(content) = 1 /\ content[1] \in DOMAIN Documents
    THEN Ok(Documents[content[1]])
    ELSE IF content \in DOMAIN TornDocuments THEN Ok(TornDocuments[content])
    ELSE Err

get_manifest_view(m) ==
    IF m.mediaType = MT_MANIFEST /\ m.config # None /\ m.layers # None
    THEN Some([mediaType |-> m.mediaType, config |-> m.config[1], layers |-> m.layers[1]])
    ELSE None

get_manifests_list(m) ==
    IF m.mediaType = MT_LIST /\ m.manifests # None
    THEN Some([mediaType |-> m.mediaType, manifests |-> m.manifests[1]])
    ELSE None

(***************************************************************************)
(* storage.rs: the repository and blob lists                               *)
(***************************************************************************)
RECURSIVE recurse_images_scan(_, _, _, _)
RECURSIVE ScanEntries(_, _, _, _, _, _, _)
ScanEntries(f, entries, i, list, path, start, rd) ==
    IF i > Len(entries) THEN list
    ELSE IF ~is_dir(f, entries[i])
         THEN ScanEntries(f, entries, i + 1, list, path, start, rd)
    ELSE IF file_name(entries[i]) = <<"_manifests">>
         THEN <<SubSeq(path, Len(start) + 2, Len(path))>>
    ELSE ScanEntries(f, entries, i + 1,
                     list \o recurse_images_scan(f, entries[i], start, rd),
                     path, start, rd)

recurse_images_scan(f, path, start, rd) ==
    IF ~exists(f, path) \/ ~is_dir(f, path) THEN <<>>
    ELSE ScanEntries(f, OrderSeq(read_dir(f, path), rd), 1, <<>>, path, start, rd)

get_docker_images_list(f, rd) ==
    LET start == join(BASE_PATH, <<"repositories">>)
    IN  SortStrings(recurse_images_scan(f, start, start, rd))

\* the directories among the entries of p, in the order p is read
DirsIn(f, p, rd) == OrderSeq({e \in read_dir(f, p) : is_dir(f, e)}, rd)

\* the second level of get_blob_list: one reference for each directory
BlobsOf(dirs) == [j \in DOMAIN dirs |-> from_sha256sum(file_name(dirs[j]))]

\* the second level of every first level directory
SecondLevel(f, rd, level1) == [i \in DOMAIN level1 |-> BlobsOf(DirsIn(f, level1[i], rd))]

get_blob_list(f, rd) ==
    IF ~exists(f, join(BASE_PATH, <<"blobs", "/", "sha256">>)) THEN <<>>
    ELSE Flatten(SecondLevel(f, rd, DirsIn(f, join(BASE_PATH, <<"blobs", "/", "sha256">>),
                                         rd)))


(***************************************************************************)
(* storage.rs: reachability                                                *)
(***************************************************************************)
RECURSIVE ScanLayers(_, _, _)
\* the loop over the layers of a manifest, from layer i on
ScanLayers(blob_ref, layers, i) ==
    IF i > Len(layers) THEN Ok(TRUE)
    ELSE Try(from_docker_blob_ref(layers[i]),
             LAMBDA layer : IF layer = blob_ref THEN Ok(FALSE)
                            ELSE ScanLayers(blob_ref, layers, i + 1))

is_blob_useless_in_docker_manifest(blob_ref, manifest) ==
    Try(from_docker_blob_ref(manifest.config),
        LAMBDA config : IF config = blob_ref THEN Ok(FALSE)
                        ELSE ScanLayers(blob_ref, manifest.layers, 1))

\* read_to_string and serde_json::from_str of the file at path
read_json(f, path) == IF is_file(f, path) THEN serde_json_from_str(f.files[path]) ELSE Err

RECURSIVE is_blob_useless_in_distribution_file(_, _, _, _)
RECURSIVE ScanManifests(_, _, _, _, _, _)
\* the loop over the entries of a manifest list, from entry i on
ScanManifests(blob_ref, upper_manifest_ref, f, depth, manifests, i) ==
    IF i > Len(manifests) THEN Ok(TRUE)
    ELSE Try(from_docker_blob_ref(manifests[i]),
             LAMBDA manifest_ref :
                 IF manifest_ref = blob_ref THEN Ok(FALSE)
                 ELSE IF manifest_ref = upper_manifest_ref
                      THEN ScanManifests(blob_ref, upper_manifest_ref, f, depth,
                                         manifests, i + 1)
                 ELSE Try(is_blob_useless_in_distribution_file(blob_ref, manifest_ref, f,
                                                               depth + 1),
                          LAMBDA useless :
                              IF ~useless THEN Ok(FALSE)
                              ELSE ScanManifests(blob_ref, upper_manifest_ref, f, depth,
                                                 manifests, i + 1)))

\* what is_blob_useless_in_distribution_file does with the parsed document
ScanDocument(blob_ref, upper_manifest_ref, f, depth, manifest) ==
    IF get_manifest_view(manifest) # None
    THEN is_blob_useless_in_docker_manifest(blob_ref, get_manifest_view(manifest)[1])
    ELSE IF get_manifests_list(manifest) # None
         THEN ScanManifests(blob_ref, upper_manifest_ref, f, depth,
                            get_manifests_list(manifest)[1].manifests, 1)
    ELSE Ok(TRUE)

\* depth counts the nested calls; the code itself sets no limit
is_blob_useless_in_distribution_file(blob_ref, upper_manifest_ref, f, depth) ==
    IF depth > StackDepth THEN StackOverflow
    ELSE IF ~exists(f, data_path(upper_manifest_ref)) THEN Ok(TRUE)
    ELSE Try(read_json(f, data_path(upper_manifest_ref)),
             LAMBDA manifest : ScanDocument(blob_ref, upper_manifest_ref, f, depth,
                                            manifest))

RECURSIVE ScanRoots(_, _, _, _)
\* the loop over the revisions and tag targets of one image, from root i on
ScanRoots(blob_ref, f, manifest_blobs, i) ==
    IF i > Len(manifest_blobs) THEN Ok(TRUE)
    ELSE IF manifest_blobs[i] = blob_ref THEN Ok(FALSE)
    ELSE Try(is_blob_useless_in_distribution_file(blob_ref, manifest_blobs[i], f, 1),
             LAMBDA useless : IF ~useless THEN Ok(FALSE)
                              ELSE ScanRoots(blob_ref, f, manifest_blobs, i + 1))

RECURSIVE TagTargets(_, _, _, _)
\* the loop over the tags of one image: the targets are pushed after the
\* revisions, but for the empty reference
TagTargets(f, image, tags, manifest_blobs) ==
    IF tags = <<>> THEN Ok(manifest_blobs)
    ELSE Try(from_file(f, manifest_tag_link_path(image, Head(tags))),
             LAMBDA manifest_ref :
                 TagTargets(f, image, Tail(tags),
                            IF is_empty_ref(manifest_ref) THEN manifest_blobs
                            ELSE Append(manifest_blobs, manifest_ref)))

RECURSIVE ScanImages(_, _, _, _, _)
\* the loop over the images, from image i on
ScanImages(blob_ref, f, rd, images, i) ==
    IF i > Len(images) THEN Ok(TRUE)
    ELSE Try(manifests_revision_list(f, images[i], rd),
             LAMBDA revisions :
                 Try(TagTargets(f, images[i], tags_list(f, images[i], rd), revisions),
                     LAMBDA manifest_blobs :
                         Try(ScanRoots(blob_ref, f, manifest_blobs, 1),
                             LAMBDA useless :
                                 IF ~useless THEN Ok(FALSE)
                                 ELSE ScanImages(blob_ref, f, rd, images, i + 1))))

\* a faulty check, which finds every blob in use: the properties must
\* notice it
NothingUseless(blob_ref, f, rd) == Ok(FALSE)

is_blob_useless(blob_ref, f, rd) ==
    ScanImages(blob_ref, f, rd, get_docker_images_list(f, rd), 1)

(***************************************************************************)
(* storage.rs: the garbage collector.  Its result carries the file system  *)
(* it leaves behind, also when it stops with an error.                     *)
(***************************************************************************)
GcOk(f) == [ok |-> TRUE, fs |-> f]

GcErr(f, why) == [ok |-> FALSE, why |-> why, fs |-> f]

RECURSIVE remove_empty_dirs(_, _, _)
RECURSIVE RemoveInEntries(_, _, _)
RemoveInEntries(f, entries, i) ==
    IF i > Len(entries) THEN f
    ELSE IF is_dir(f, entries[i])
         THEN RemoveInEntries(remove_empty_dirs(f, entries[i], TRUE), entries, i + 1)
    ELSE RemoveInEntries(f, entries, i + 1)

\* a faulty end, which removes the storage path as well when it is empty:
\* the properties must notice it
RemoveEvenRoot(f, path, found_files, can_remove) ==
    IF ~found_files THEN remove_dir(f, path) ELSE f

\* the end of remove_empty_dirs: lines 338-340
RemoveIfEmpty(f, path, found_files, can_remove) ==
    IF ~found_files /\ can_remove THEN remove_dir(f, path) ELSE f

remove_empty_dirs(f, path, can_remove) ==
    RemoveIfEmpty(RemoveInEntries(f, SetToSeq(read_dir(f, path)), 1), path,
                  read_dir(f, path) # {}, can_remove)

RECURSIVE SweepBlobs(_, _, _, _)
\* a faulty sweep, which ends the pass at the first blob it deletes: the
\* properties must notice it
SweepAndStop(f, rd, blobs, i, useless) ==
    IF ~useless.ok THEN GcErr(f, useless.why)
    ELSE IF ~useless.v THEN SweepBlobs(f, rd, blobs, i + 1)
    ELSE GcOk(remove_dir_all(f, parent(data_path(blobs[i]))))

\* what clean_storage does with one blob, once is_blob_useless has answered
SweepBlob(f, rd, blobs, i, useless) ==
    IF ~useless.ok THEN GcErr(f, useless.why)
    ELSE IF ~useless.v THEN SweepBlobs(f, rd, blobs, i + 1)
    ELSE SweepBlobs(remove_dir_all(f, parent(data_path(blobs[i]))), rd, blobs, i + 1)

\* the loop over the blobs of one pass, from blob i on
SweepBlobs(f, rd, blobs, i) ==
    IF i > Len(blobs) THEN GcOk(f)
    ELSE IF is_empty_ref(blobs[i]) THEN SweepBlobs(f, rd, blobs, i + 1)
    ELSE SweepBlob(f, rd, blobs, i, is_blob_useless(blobs[i], f, rd))

RECURSIVE CleanPasses(_, _, _)
\* the end of one pass, once the blobs are swept
CleanPass(swept, rd, n) ==
    IF ~swept.ok THEN swept
    ELSE CleanPasses(remove_empty_dirs(swept.fs, <<>>, FALSE), rd, n - 1)

\* the n passes that are still to run
CleanPasses(f, rd, n) ==
    IF n = 0 THEN GcOk(f)
    ELSE CleanPass(SweepBlobs(f, rd, get_blob_list(f, rd), 1), rd, n)

GcPasses == 3

clean_storage(f, rd) == CleanPasses(f, rd, GcPasses)


(***************************************************************************)
(* utils.rs                                                                *)
(***************************************************************************)
\* create_dir_all of the parent, then write(path, vec![]): an existing file
\* is truncated
create_empty_file(f, path) == write(create_dir_all(f, parent(path)), path, <<>>)

(***************************************************************************)
(* server.rs: responses.  Status 0 stands for no response at all: the      *)
(* handler panicked or the process was killed.                             *)
(***************************************************************************)
ACCESS_URL == <<"http:", "/", "/", "registry">>

NoHeaders == [code |-> "", digest |-> <<>>, location |-> <<>>, range |-> <<>>,
              ctype |-> "", body |-> <<>>, authenticate |-> <<>>]

Response(status, headers) ==
    [status |-> status, code |-> headers.code, digest |-> headers.digest,
     location |-> headers.location, range |-> headers.range, ctype |-> headers.ctype,
     body |-> headers.body, authenticate |-> headers.authenticate]

\* DockerErrorResponse::new_simple
DockerError(status, code) == Response(status, [NoHeaders EXCEPT !.code = code])

\* ok_or_internal_error on Err
InternalServerError ==
    Response(500, [NoHeaders EXCEPT !.body = <<"500 Internal Server Error">>])

NoResponse == Response(0, NoHeaders)

\* what a handler returns: the file system it leaves and its response
Done(f, res) == [fs |-> f, res |-> res]

Failed(f, why) == Done(f, IF why = "stack" THEN NoResponse ELSE InternalServerError)

\* ok_or_internal_error: the response of the handler, or 500 for its Err
ok_or_internal_error(f, r) == IF r.ok THEN r.v ELSE Failed(f, r.why)

\* the length in bytes of a file
FileLen(f, path) == StrLen(f.files[path])

(***************************************************************************)
(* server.rs: blobs and manifests                                          *)
(***************************************************************************)
serve_blob(f, blob_ref, content_type) ==
    LET blob_path == data_path(blob_ref)
    IN  IF ~exists(f, blob_path) THEN DockerError(404, "BLOB_UNKNOWN")
        ELSE IF ~is_file(f, blob_path) THEN InternalServerError
        ELSE Response(200, [NoHeaders EXCEPT !.ctype = content_type,
                                             !.digest = to_digest(blob_ref),
                                             !.body = f.files[blob_path]])

get_blob(f, image, digest) ==
    IF ~from_str(digest).ok THEN Done(f, InternalServerError)
    ELSE Done(f, serve_blob(f, from_str(digest).v, "application/octet-stream"))

\* the reference get_manifest looks for: the one of the request, or the one
\* in the link file of the tag
ManifestRef(f, image, image_ref) ==
    IF StartsWithSha256(image_ref) THEN from_str(image_ref)
    ELSE from_file(f, manifest_tag_link_path(image, image_ref))

get_manifest(f, image, image_ref, rd) ==
    IF ~StartsWithSha256(image_ref) /\ ~exists(f, manifest_tag_link_path(image, image_ref))
    THEN Done(f, DockerError(404, "MANIFEST_UNKNOWN"))
    ELSE ok_or_internal_error(f,
           Try(ManifestRef(f, image, image_ref),
               LAMBDA blob_ref :
                   Try(manifests_revision_list(f, image, rd),
                       LAMBDA revisions :
                           IF blob_ref \notin Range(revisions)
                           THEN Ok(Done(f, DockerError(404, "MANIFEST_BLOB_UNKNOWN")))
                           ELSE Try(read_json(f, data_path(blob_ref)),
                                    LAMBDA manifest :
                                        Ok(Done(f, serve_blob(f, blob_ref,
                                                              manifest.mediaType)))))))

\* the blob of put_manifest: lines 391-396
PutManifestBlob(f, manifest) ==
    LET blob_path == data_path(from_sha256sum(sha256sum(manifest)))
    IN  write(create_empty_file(f, blob_path), blob_path, manifest)

\* one link of put_manifest: lines 406-409
PutManifestLink(f, manifest_path, blob_ref) ==
    write(create_empty_file(f, manifest_path), manifest_path, to_digest(blob_ref))

\* a faulty choice of the links, which takes every reference that begins
\* with sha256 for a digest: the properties must notice it
ManifestLinksByPrefix(image, image_ref, blob_ref) ==
    <<manifest_revision_path(image, blob_ref)>>
        \o (IF ~StartsWithSha256(image_ref)
            THEN <<manifest_tag_link_path(image, image_ref)>>
            ELSE <<>>)

\* the links put_manifest writes: the revision, and the tag when the
\* reference of the request is no digest
ManifestLinks(image, image_ref, blob_ref) ==
    <<manifest_revision_path(image, blob_ref)>>
        \o (IF ~is_valid_reference(image_ref)
            THEN <<manifest_tag_link_path(image, image_ref)>>
            ELSE <<>>)

RECURSIVE PutManifestLinks(_, _, _)
PutManifestLinks(f, list, blob_ref) ==
    IF list = <<>> THEN f
    ELSE PutManifestLinks(PutManifestLink(f, Head(list), blob_ref), Tail(list), blob_ref)

\* the response of put_manifest
ManifestCreated(image, blob_ref) ==
    Response(201, [NoHeaders EXCEPT
                      !.digest = to_digest(blob_ref),
                      !.location = join(join(join(join(ACCESS_URL, <<"v2">>), image),
                                             <<"manifests">>), to_digest(blob_ref))])

put_manifest(f, image, image_ref, manifest) ==
    LET blob_ref == from_sha256sum(sha256sum(manifest))
    IN  Done(PutManifestLinks(PutManifestBlob(f, manifest),
                              ManifestLinks(image, image_ref, blob_ref), blob_ref),
             ManifestCreated(image, blob_ref))

\* a faulty removal, which leaves the tags where they are: the properties
\* must notice it
KeepTags(f, image, tags, i) == f

RECURSIVE RemoveTags(_, _, _, _)
RemoveTags(f, image, tags, i) ==
    IF i > Len(tags) THEN f
    ELSE RemoveTags(remove_dir_all(f, join(tags_path(image), tags[i])), image, tags, i + 1)

\* the end of delete_manifest, once the garbage collector has run
CleanAfterDelete(gc) ==
    IF gc.ok THEN Done(gc.fs, Response(202, NoHeaders)) ELSE Failed(gc.fs, gc.why)

\* delete_manifest from the removal of the revision link on: lines 443-449
RemoveRevision(f, image, blob, rd) ==
    IF ~is_file(f, manifest_revision_path(image, blob)) THEN Done(f, InternalServerError)
    ELSE CleanAfterDelete(clean_storage(remove_file(f, manifest_revision_path(image, blob)),
                                        rd))

delete_manifest(f, image, digest, rd) ==
    ok_or_internal_error(f,
      Try(from_str(digest),
          LAMBDA blob :
              Try(manifests_revision_list(f, image, rd),
                  LAMBDA revisions :
                      IF blob \notin Range(revisions)
                      THEN Ok(Done(f, DockerError(404, "MANIFEST_BLOB_UNKNOWN")))
                      ELSE Try(get_tags_attached_to_manifest_blob(f, image, blob, rd),
                               LAMBDA tags :
                                   Ok(RemoveRevision(RemoveTags(f, image, tags, 1), image,
                                                     blob, rd))))))


(***************************************************************************)
(* server.rs: the catalog.  `last` and `n` are Options.                    *)
(***************************************************************************)
Min(a, b) == IF a <= b THEN a ELSE b

\* images.iter().position(|f| f.eq(s)).map(|f| f + 1).unwrap_or(0), with
\* positions counted from 0
CatalogStart(images, last) ==
    IF last = None THEN 0
    ELSE IF \E i \in DOMAIN images : images[i] = last[1]
         THEN CHOOSE i \in DOMAIN images :
                  images[i] = last[1] /\ \A j \in 1..(i - 1) : images[j] # last[1]
    ELSE 0

\* images[min(start, len - 1)..min(len, end)]: the entries at the positions
\* from the first bound up to, and without, the second
CatalogSlice(images, start, end) ==
    SubSeq(images, Min(start, Len(images) - 1) + 1, Min(Len(images), end))

catalog(f, last, n, rd) ==
    LET images == get_docker_images_list(f, rd)
        start == CatalogStart(images, last)
        end == start + (IF n = None THEN Len(images) + 1 ELSE n[1])
    IN  IF images = <<>> THEN Response(200, [NoHeaders EXCEPT !.body = <<>>])
        ELSE Response(200, [NoHeaders EXCEPT !.body = CatalogSlice(images, start, end)])

(***************************************************************************)
(* server.rs: the upload state machine                                     *)
(***************************************************************************)
\* a faulty response, whose Range ends at the size and not at the last
\* byte: the properties must notice it
RangeToSize(f, status, image, uuid) ==
    IF ~is_file(f, upload_storage_path(image, uuid)) THEN InternalServerError
    ELSE Response(status, [NoHeaders EXCEPT
                              !.range = <<0, FileLen(f, upload_storage_path(image, uuid))>>])

blob_upload_response(f, status, image, uuid) ==
    LET path == upload_storage_path(image, uuid)
        offset == IF FileLen(f, path) = 0 THEN 0 ELSE FileLen(f, path) - 1
        location == join(join(join(join(join(ACCESS_URL, <<"v2">>), image), <<"blobs">>),
                              <<"uploads">>), uuid)
    IN  IF ~is_file(f, path) THEN InternalServerError
        ELSE Response(status, [NoHeaders EXCEPT !.range = <<0, offset>>,
                                                !.location = location])

start_blob_upload(f, image, uuid) ==
    LET f1 == create_empty_file(f, upload_storage_path(image, uuid))
    IN  Done(f1, blob_upload_response(f1, 202, image, uuid))

blob_upload_status(f, image, uuid) ==
    IF ~exists(f, upload_storage_path(image, uuid))
    THEN Done(f, DockerError(404, "BLOB_UNKNOWN"))
    ELSE Done(f, blob_upload_response(f, 204, image, uuid))

\* a faulty append, which drops the payload: the properties must notice it
AppendNothing(f, path, payload) == f

\* a faulty append, which writes the payload in front of the file: the
\* properties must notice it
PrependToFile(f, path, payload) == write(f, path, payload \o f.files[path])

\* OpenOptions::append and write_all of every chunk of the payload
AppendToFile(f, path, payload) == write(f, path, f.files[path] \o payload)

\* Some(response) when the request ends here, None when the payload is stored
process_blob_upload(f, image, uuid, payload) ==
    LET payload_path == upload_storage_path(image, uuid)
    IN  IF ~exists(f, payload_path)
        THEN Done(f, Some(DockerError(404, "BLOB_UNKNOWN")))
        ELSE Done(AppendToFile(f, payload_path, payload), None)

blob_upload_patch(f, image, uuid, payload) ==
    LET stored == process_blob_upload(f, image, uuid, payload)
    IN  IF stored.res # None THEN Done(stored.fs, stored.res[1])
        ELSE Done(stored.fs, blob_upload_response(stored.fs, 202, image, uuid))

\* the end of blob_upload_finish, from the length of the blob on.
\* overflow_checks: whether the build panics on integer overflow (debug) or
\* wraps (release); a wrapped `0 - 1` of u64 is written -1
BlobCreated(f, image, digest, dest, overflow_checks) ==
    IF FileLen(f, dest) = 0 /\ overflow_checks THEN NoResponse
    ELSE Response(201, [NoHeaders EXCEPT
                           !.range = <<0, FileLen(f, dest) - 1>>,
                           !.digest = digest,
                           !.location = join(join(join(join(ACCESS_URL, <<"v2">>), image),
                                                  <<"blobs">>), digest)])

blob_upload_finish(f, image, uuid, payload, digest, overflow_checks) ==
    LET stored == process_blob_upload(f, image, uuid, payload)
        f1 == stored.fs
        computed_digest ==
            <<"sha256", ":">> \o sha256sum(f1.files[upload_storage_path(image, uuid)])
        dest == data_path(from_str(digest).v)
        f3 == rename(create_empty_file(f1, dest), upload_storage_path(image, uuid), dest)
    IN  IF stored.res # None THEN Done(f1, stored.res[1])
        ELSE IF computed_digest # digest THEN Done(f1, DockerError(400, "DIGEST_INVALID"))
        ELSE IF ~from_str(digest).ok THEN Done(f1, InternalServerError)
        ELSE Done(f3, BlobCreated(f3, image, digest, dest, overflow_checks))

\* a faulty cancel, which does not look for the session: the properties
\* must notice it
CancelUnchecked(f, image, uuid) ==
    Done(remove_file(f, upload_storage_path(image, uuid)), Response(204, NoHeaders))

cancel_blob_upload(f, image, uuid) ==
    IF ~exists(f, upload_storage_path(image, uuid))
    THEN Done(f, DockerError(404, "BLOB_UNKNOWN"))
    ELSE Done(remove_file(f, upload_storage_path(image, uuid)), Response(204, NoHeaders))

(***************************************************************************)
(* server.rs: authentication and the dispatcher.  A token is what the      *)
(* Authorization header holds: nothing, a text that does not decode, a     *)
(* token that has timed out, a token without user, or a token of a user.   *)
(***************************************************************************)
Tokens == {"none", "garbage", "expired", "anonymous", "user"}

\* 401 with WWW-Authenticate: Bearer realm=..,service=..,scope="access" and,
\* when an error is given, error="<error>"
request_auth(error) ==
    Response(401, [NoHeaders EXCEPT !.code = "UNAUTHORIZED",
                                    !.authenticate = <<"Bearer", error>>])

insufficient_authorizations == request_auth("insufficient_scope")

\* check_auth: the user it sets, and the response it returns if any
check_auth(need_auth, token) ==
    IF ~need_auth THEN [user |-> Some("anonymous"), e |-> None]
    ELSE IF token \in {"none", "garbage"} THEN [user |-> None, e |-> Some(request_auth(""))]
    ELSE IF token = "expired"
         THEN [user |-> None, e |-> Some(request_auth("invalid_token"))]
    ELSE [user |-> IF token = "user" THEN Some("user") ELSE None, e |-> None]

not_found == Response(404, [NoHeaders EXCEPT !.body = <<"404 Not Found">>])

get_tags_list(f, image, rd) ==
    IF ~exists(f, image_path(image)) THEN Done(f, DockerError(404, "NAME_UNKNOWN"))
    ELSE Done(f, Response(200, [NoHeaders EXCEPT !.body = tags_list(f, image, rd)]))

delete_blob(f) == Done(f, DockerError(405, "UNSUPPORTED"))

\* Regex ^[0-9a-zA-Z\-]+$ on the last part of the path
IsUuid(uuid) == Len(uuid) = 1 /\ uuid[1] \notin {":", "/"}

\* /v2/<name>/manifests/<reference>
ManifestsRoute(f, user, req, rd) ==
    IF req.method \in {"GET", "HEAD"} THEN get_manifest(f, req.image, req.ref, rd)
    ELSE IF req.method \in {"PUT", "DELETE"} /\ user = None
         THEN Done(f, insufficient_authorizations)
    ELSE IF req.method = "PUT" THEN put_manifest(f, req.image, req.ref, req.body)
    ELSE IF req.method = "DELETE" THEN delete_manifest(f, req.image, req.ref, rd)
    ELSE Done(f, not_found)

\* /v2/<name>/blobs/<digest>
BlobsRoute(f, user, req) ==
    IF req.method \in {"GET", "HEAD"} THEN get_blob(f, req.image, req.ref)
    ELSE IF req.method = "DELETE"
         THEN IF user = None THEN Done(f, insufficient_authorizations) ELSE delete_blob(f)
    ELSE Done(f, not_found)

\* /v2/<name>/blobs/uploads/<uuid>
UploadsRoute(f, user, req, overflow_checks) ==
    IF user = None THEN Done(f, insufficient_authorizations)
    ELSE IF ~IsUuid(req.ref) THEN Done(f, Response(400, NoHeaders))
    ELSE IF req.method = "GET" THEN blob_upload_status(f, req.image, req.ref)
    ELSE IF req.method = "PATCH" THEN blob_upload_patch(f, req.image, req.ref, req.body)
    ELSE IF req.method = "PUT"
         THEN blob_upload_finish(f, req.image, req.ref, req.body, req.digest,
                                 overflow_checks)
    ELSE IF req.method = "DELETE" THEN cancel_blob_upload(f, req.image, req.ref)
    ELSE Done(f, not_found)

\* the routes of requests_dispatcher, once check_auth has let the request
\* pass; for /v2/<name>/blobs/uploads/ the reference of the request is the
\* uuid that start_blob_upload draws
Route(f, user, req, rd, overflow_checks) ==
    IF req.endpoint = "tags/list" THEN get_tags_list(f, req.image, rd)
    ELSE IF req.endpoint = "manifests" THEN ManifestsRoute(f, user, req, rd)
    ELSE IF req.endpoint = "blobs" THEN BlobsRoute(f, user, req)
    ELSE IF req.endpoint = "blobs/uploads/"
         THEN IF user = None THEN Done(f, insufficient_authorizations)
              ELSE start_blob_upload(f, req.image, req.ref)
    ELSE IF req.endpoint = "blobs/uploads" THEN UploadsRoute(f, user, req, overflow_checks)
    ELSE Done(f, not_found)

requests_dispatcher(f, need_auth, token, req, rd, overflow_checks) ==
    IF check_auth(need_auth, token).e # None THEN Done(f, check_auth(need_auth, token).e[1])
    ELSE Route(f, check_auth(need_auth, token).user, req, rd, overflow_checks)

(***************************************************************************)
(* The requests the clients send.                                          *)
(***************************************************************************)
Images == {<<"app">>, <<"app", "/", "sub">>}

Tags == {<<"v1">>, <<"sha256x">>}

Uuids == <<<<"u1">>, <<"u2">>, <<"u3">>, <<"u4">>>>

Chunks == {<<>>, <<"a">>, <<"b">>}

ManifestBodies == {<<"M1">>, <<"M2">>, <<"ML">>}

DigestOf(content) == to_digest(from_sha256sum(sha256sum(content)))

\* the digest a client may give when it finishes an upload of `content`:
\* the right one, two others, or none
FinishDigests(content) == {DigestOf(content), DigestOf(<<>>), DigestOf(<<"a">>), <<>>}

Request(op, image, ref, body, digest) ==
    [op |-> op, image |-> image, ref |-> ref, body |-> body, digest |-> digest]

Served(req, res) == [req |-> req, res |-> res]

\* the handler has run: the store is what it leaves, the client has its answer
Respond(req, done) ==
    /\ fs' = done.fs
    /\ resp' = Served(req, done.res)
    /\ inflight' = inflight

\* no request has been answered yet
Started == Served(Request("none", <<>>, <<>>, <<>>, <<>>), NoResponse)

SpendStep ==
    /\ budget.steps > 0
    /\ budget' = [budget EXCEPT !.steps = @ - 1]

Spend(kind) ==
    /\ budget.steps > 0
    /\ budget[kind] > 0
    /\ budget' = [budget EXCEPT !.steps = @ - 1, ![kind] = @ - 1]

\* the session files that exist, as <<image, uuid>>
Sessions ==
    {s \in Images \X Range(Uuids) : is_file(fs, upload_storage_path(s[1], s[2]))}

SessionFile(s) == fs.files[upload_storage_path(s[1], s[2])]

(***************************************************************************)
(* The upload state machine, one request at a time: UploadSpec.            *)
(***************************************************************************)
UploadInit ==
    /\ fs = EmptyFs
    /\ resp = Started
    /\ budget = [steps |-> MaxUploadSteps, uploads |-> MaxUploads, puts |-> 0,
                 deletes |-> 0, minted |-> 0]
    /\ inflight = <<>>

StartBlobUpload ==
    \E image \in Images :
        /\ budget.steps > 0 /\ budget.uploads > 0
        /\ budget' = [budget EXCEPT !.steps = @ - 1, !.uploads = @ - 1, !.minted = @ + 1]
        /\ Respond(Request("POST", image, Uuids[budget.minted + 1], <<>>, <<>>),
                   start_blob_upload(fs, image, Uuids[budget.minted + 1]))

BlobUploadStatus ==
    \E s \in Sessions :
        /\ SpendStep
        /\ Respond(Request("GET upload", s[1], s[2], <<>>, <<>>),
                   blob_upload_status(fs, s[1], s[2]))

BlobUploadPatch ==
    \E s \in Sessions, payload \in Chunks :
        /\ Len(SessionFile(s)) + Len(payload) <= MaxFileLen
        /\ SpendStep
        /\ Respond(Request("PATCH", s[1], s[2], payload, <<>>),
                   blob_upload_patch(fs, s[1], s[2], payload))

BlobUploadFinish ==
    \E s \in Sessions, payload \in Chunks, overflow_checks \in BOOLEAN :
      \E digest \in FinishDigests(SessionFile(s) \o payload) :
        /\ Len(SessionFile(s)) + Len(payload) <= MaxFileLen
        /\ SpendStep
        /\ Respond(Request("PUT upload", s[1], s[2], payload, digest),
                   blob_upload_finish(fs, s[1], s[2], payload, digest, overflow_checks))

CancelBlobUpload ==
    \E s \in Sessions :
        /\ SpendStep
        /\ Respond(Request("DELETE upload", s[1], s[2], <<>>, <<>>),
                   cancel_blob_upload(fs, s[1], s[2]))

UploadNext ==
    \/ StartBlobUpload
    \/ BlobUploadStatus
    \/ BlobUploadPatch
    \/ BlobUploadFinish
    \/ CancelBlobUpload

UploadSpec == UploadInit /\ [][UploadNext]_vars

(***************************************************************************)
(* The manifest store and the garbage collector, one request at a time:    *)
(* Spec.  It starts from a store that finished uploads have filled.        *)
(***************************************************************************)
\* POST, then PUT of the whole blob with its digest
PushBlob(f, image, uuid, content) ==
    blob_upload_finish(start_blob_upload(f, image, uuid).fs, image, uuid, content,
                       DigestOf(content), FALSE).fs

RECURSIVE PushBlobs(_, _, _)
PushBlobs(f, image, contents) ==
    IF contents = <<>> THEN f
    ELSE PushBlobs(PushBlob(f, image, Uuids[Len(contents)], Head(contents)), image,
                   Tail(contents))

\* the blobs a, b and the empty blob, uploaded to app
BlobStore == PushBlobs(EmptyFs, <<"app">>, <<<<"a">>, <<"b">>, <<>>>>)

\* PUT of a manifest under its own digest
PushManifest(f, image, manifest) ==
    put_manifest(f, image, DigestOf(manifest), manifest).fs

\* the blobs, and the manifests M1 and M2 pushed to app under their digests
ManifestStore ==
    PushManifest(PushManifest(BlobStore, <<"app">>, <<"M1">>), <<"app">>, <<"M2">>)

InitStores == {EmptyFs, BlobStore, ManifestStore}

Init ==
    /\ fs \in InitStores
    /\ resp = Started
    /\ budget = [steps |-> MaxSteps, uploads |-> 0, puts |-> MaxPuts,
                 deletes |-> MaxDeletes, minted |-> 0]
    /\ inflight = <<>>

PutManifest ==
    \E image \in Images, manifest \in ManifestBodies :
      \E image_ref \in Tags \cup {DigestOf(manifest)} :
        /\ Spend("puts")
        /\ Respond(Request("PUT manifest", image, image_ref, manifest, <<>>),
                   put_manifest(fs, image, image_ref, manifest))

DeleteManifest ==
    \E image \in Images, manifest \in ManifestBodies, rd \in ReadDirOrders :
        /\ Spend("deletes")
        /\ Respond(Request("DELETE manifest", image, DigestOf(manifest), <<>>, <<>>),
                   delete_manifest(fs, image, DigestOf(manifest), rd))

\* main: clean_storage(..).unwrap() before the server listens
StartupDone(gc) == Done(gc.fs, IF gc.ok THEN Response(200, NoHeaders) ELSE NoResponse)

Startup ==
    \E rd \in ReadDirOrders :
        /\ Spend("deletes")
        /\ Respond(Request("startup", <<>>, <<>>, <<>>, <<>>),
                   StartupDone(clean_storage(fs, rd)))

Next ==
    \/ PutManifest
    \/ DeleteManifest
    \/ Startup

Spec == Init /\ [][Next]_vars

(***************************************************************************)
(* The server with several requests in flight: ConcSpec.  The workers run  *)
(* the handlers in parallel, so the calls the handlers make to the file    *)
(* system interleave; a step is one such call.  A run of the garbage       *)
(* collector is taken as one step.                                         *)
(***************************************************************************)
Threads == 1..MaxThreads

Idle == [req |-> Request("none", <<>>, <<>>, <<>>, <<>>), pc |-> "idle", todo |-> <<>>]

Serving(req, pc, todo) == [req |-> req, pc |-> pc, todo |-> todo]

\* the session u1 of app is open and holds the byte a
OpenStore ==
    blob_upload_patch(start_blob_upload(EmptyFs, <<"app">>, <<"u1">>).fs, <<"app">>,
                      <<"u1">>, <<"a">>).fs

\* the requests that the clients of the concurrent server send
ConcRequests ==
    {Request("PUT manifest", <<"app">>, <<"v1">>, <<"M1">>, <<>>),
     Request("DELETE manifest", <<"app">>, DigestOf(<<"M1">>), <<>>, <<>>),
     Request("PATCH", <<"app">>, <<"u1">>, <<"b">>, <<>>)}
        \cup {Request("PUT upload", <<"app">>, <<"u1">>, payload, digest) :
                 payload \in {<<>>, <<"b">>},
                 digest \in {DigestOf(<<"a">>), DigestOf(<<"a", "b">>)}}

ConcInit ==
    /\ fs = OpenStore
    /\ resp = Started
    /\ budget = [steps |-> MaxRequests, uploads |-> 0, puts |-> 0, deletes |-> 0,
                 minted |-> 1]
    /\ inflight = [t \in Threads |-> Idle]

\* thread t is in the handler of op, at pc
At(t, op, pc) == inflight[t].req.op = op /\ inflight[t].pc = pc

\* thread t goes on to pc
Goto(t, pc, todo) ==
    /\ inflight' = [inflight EXCEPT ![t] = Serving(@.req, pc, todo)]
    /\ resp' = resp
    /\ budget' = budget

\* thread t answers its request
Answer(t, res) ==
    /\ inflight' = [inflight EXCEPT ![t] = Idle]
    /\ resp' = Served(inflight[t].req, res)
    /\ budget' = budget

\* thread t answers what the rest of its handler returns
Finish(t, done) ==
    /\ fs' = done.fs
    /\ Answer(t, done.res)

\* the first idle thread takes a request
Receive(t) ==
    \E req \in ConcRequests :
        /\ inflight[t].pc = "idle"
        /\ \A u \in Threads : u < t => inflight[u].pc # "idle"
        /\ SpendStep
        /\ inflight' = [inflight EXCEPT ![t] = Serving(req, "start", <<>>)]
        /\ UNCHANGED <<fs, resp>>

\* the reference of the manifest that thread t pushes
PushedRef(t) == from_sha256sum(sha256sum(inflight[t].req.body))

\* put_manifest: create_empty_file(&blob_path)
PutCreateBlob(t) ==
    /\ At(t, "PUT manifest", "start")
    /\ fs' = create_empty_file(fs, data_path(PushedRef(t)))
    /\ Goto(t, "write_blob", <<>>)

\* put_manifest: std::fs::write(blob_path, manifest)
PutWriteBlob(t) ==
    /\ At(t, "PUT manifest", "write_blob")
    /\ IF ~is_dir(fs, parent(data_path(PushedRef(t))))
       THEN fs' = fs /\ Answer(t, InternalServerError)
       ELSE /\ fs' = write(fs, data_path(PushedRef(t)), inflight[t].req.body)
            /\ Goto(t, "create_link",
                    ManifestLinks(inflight[t].req.image, inflight[t].req.ref, PushedRef(t)))

\* put_manifest: create_empty_file(&manifest_path) of the next link
PutCreateLink(t) ==
    /\ At(t, "PUT manifest", "create_link")
    /\ fs' = create_empty_file(fs, Head(inflight[t].todo))
    /\ Goto(t, "write_link", inflight[t].todo)

\* put_manifest: std::fs::write(manifest_path, blob_ref.to_digest()), and
\* the response after the last link
PutWriteLink(t) ==
    /\ At(t, "PUT manifest", "write_link")
    /\ IF ~is_dir(fs, parent(Head(inflight[t].todo)))
       THEN fs' = fs /\ Answer(t, InternalServerError)
       ELSE /\ fs' = write(fs, Head(inflight[t].todo), to_digest(PushedRef(t)))
            /\ IF Tail(inflight[t].todo) = <<>>
               THEN Answer(t, ManifestCreated(inflight[t].req.image, PushedRef(t)))
               ELSE Goto(t, "create_link", Tail(inflight[t].todo))

\* delete_manifest, once the revisions are listed
DeleteChecked(t, blob, revisions) ==
    /\ fs' = fs
    /\ IF ~blob.ok \/ ~revisions.ok THEN Answer(t, InternalServerError)
       ELSE IF blob.v \notin Range(revisions.v)
            THEN Answer(t, DockerError(404, "MANIFEST_BLOB_UNKNOWN"))
       ELSE Goto(t, "tags", <<>>)

\* delete_manifest: from_str(digest) and manifests_revision_list
DeleteCheck(t) ==
    /\ At(t, "DELETE manifest", "start")
    /\ \E rd \in ReadDirOrders :
           DeleteChecked(t, from_str(inflight[t].req.ref),
                         manifests_revision_list(fs, inflight[t].req.image, rd))

\* delete_manifest, once the tags of the manifest are listed
DeleteListed(t, tags) ==
    /\ fs' = fs
    /\ IF ~tags.ok THEN Answer(t, InternalServerError) ELSE Goto(t, "remove", tags.v)

\* delete_manifest: get_tags_attached_to_manifest_blob
DeleteListTags(t) ==
    /\ At(t, "DELETE manifest", "tags")
    /\ \E rd \in ReadDirOrders :
           DeleteListed(t, get_tags_attached_to_manifest_blob(
                               fs, inflight[t].req.image, from_str(inflight[t].req.ref).v,
                               rd))

\* delete_manifest: remove_dir_all of the next tag
DeleteRemoveTag(t) ==
    /\ At(t, "DELETE manifest", "remove")
    /\ inflight[t].todo # <<>>
    /\ IF ~is_dir(fs, join(tags_path(inflight[t].req.image), Head(inflight[t].todo)))
       THEN fs' = fs /\ Answer(t, InternalServerError)
       ELSE /\ fs' = remove_dir_all(fs, join(tags_path(inflight[t].req.image),
                                             Head(inflight[t].todo)))
            /\ Goto(t, "remove", Tail(inflight[t].todo))

\* delete_manifest: remove_file of the revision link
DeleteRemoveRevision(t) ==
    /\ At(t, "DELETE manifest", "remove")
    /\ inflight[t].todo = <<>>
    /\ IF ~is_file(fs, manifest_revision_path(inflight[t].req.image,
                                              from_str(inflight[t].req.ref).v))
       THEN fs' = fs /\ Answer(t, InternalServerError)
       ELSE /\ fs' = remove_file(fs, manifest_revision_path(
                                         inflight[t].req.image,
                                         from_str(inflight[t].req.ref).v))
            /\ Goto(t, "clean", <<>>)

\* delete_manifest: clean_storage, and the response
DeleteClean(t) ==
    /\ At(t, "DELETE manifest", "clean")
    /\ \E rd \in ReadDirOrders : Finish(t, CleanAfterDelete(clean_storage(fs, rd)))

\* the session file of the request of thread t
UploadPath(t) == upload_storage_path(inflight[t].req.image, inflight[t].req.ref)

\* a handler, once process_blob_upload has returned
Stored(t, stored, pc) ==
    /\ fs' = stored.fs
    /\ IF stored.res # None THEN Answer(t, stored.res[1]) ELSE Goto(t, pc, <<>>)

\* blob_upload_patch: process_blob_upload
PatchAppend(t) ==
    /\ At(t, "PATCH", "start")
    /\ Stored(t, process_blob_upload(fs, inflight[t].req.image, inflight[t].req.ref,
                                     inflight[t].req.body), "respond")

\* blob_upload_patch: blob_upload_response
PatchRespond(t) ==
    /\ At(t, "PATCH", "respond")
    /\ fs' = fs
    /\ Answer(t, blob_upload_response(fs, 202, inflight[t].req.image, inflight[t].req.ref))

\* blob_upload_finish: process_blob_upload
FinishAppend(t) ==
    /\ At(t, "PUT upload", "start")
    /\ Stored(t, process_blob_upload(fs, inflight[t].req.image, inflight[t].req.ref,
                                     inflight[t].req.body), "digest")

\* blob_upload_finish: sha256sum of the session file, and the comparison
FinishDigest(t) ==
    /\ At(t, "PUT upload", "digest")
    /\ fs' = fs
    /\ IF ~is_file(fs, UploadPath(t)) THEN Answer(t, InternalServerError)
       ELSE IF <<"sha256", ":">> \o sha256sum(fs.files[UploadPath(t)]) # inflight[t].req.digest
            THEN Answer(t, DockerError(400, "DIGEST_INVALID"))
       ELSE IF ~from_str(inflight[t].req.digest).ok THEN Answer(t, InternalServerError)
       ELSE Goto(t, "create", <<>>)

\* the data path of the blob that thread t finishes
Dest(t) == data_path(from_str(inflight[t].req.digest).v)

\* blob_upload_finish: create_empty_file(&dest)
FinishCreate(t) ==
    /\ At(t, "PUT upload", "create")
    /\ fs' = create_empty_file(fs, Dest(t))
    /\ Goto(t, "rename", <<>>)

\* blob_upload_finish: std::fs::rename
FinishRename(t) ==
    /\ At(t, "PUT upload", "rename")
    /\ IF ~is_file(fs, UploadPath(t)) \/ ~is_dir(fs, parent(Dest(t)))
       THEN fs' = fs /\ Answer(t, InternalServerError)
       ELSE fs' = rename(fs, UploadPath(t), Dest(t)) /\ Goto(t, "respond", <<>>)

\* blob_upload_finish: the length of the blob, and the response
FinishRespond(t) ==
    /\ At(t, "PUT upload", "respond")
    /\ fs' = fs
    /\ IF ~is_file(fs, Dest(t)) THEN Answer(t, InternalServerError)
       ELSE \E overflow_checks \in BOOLEAN :
                Answer(t, BlobCreated(fs, inflight[t].req.image, inflight[t].req.digest,
                                      Dest(t), overflow_checks))

ConcNext ==
    \E t \in Threads :
        \/ Receive(t)
        \/ PutCreateBlob(t)
        \/ PutWriteBlob(t)
        \/ PutCreateLink(t)
        \/ PutWriteLink(t)
        \/ DeleteCheck(t)
        \/ DeleteListTags(t)
        \/ DeleteRemoveTag(t)
        \/ DeleteRemoveRevision(t)
        \/ DeleteClean(t)
        \/ PatchAppend(t)
        \/ PatchRespond(t)
        \/ FinishAppend(t)
        \/ FinishDigest(t)
        \/ FinishCreate(t)
        \/ FinishRename(t)
        \/ FinishRespond(t)

ConcSpec == ConcInit /\ [][ConcNext]_vars

(***************************************************************************)
(* Two uploads of the same bytes are finished while the blob is read:      *)
(* RefinishSpec.  The steps of blob_upload_finish are those of ConcSpec.   *)
(***************************************************************************)
\* the blob a is stored, and the sessions u1 and u2 of app hold the byte a
RefinishStore ==
    blob_upload_patch(
        start_blob_upload(
            blob_upload_patch(
                start_blob_upload(PushBlob(EmptyFs, <<"app">>, Uuids[3], <<"a">>),
                                  <<"app">>, Uuids[1]).fs,
                <<"app">>, Uuids[1], <<"a">>).fs,
            <<"app">>, Uuids[2]).fs,
        <<"app">>, Uuids[2], <<"a">>).fs

\* PUT of either session with the digest of a and no further bytes
RefinishRequests ==
    {Request("PUT upload", <<"app">>, uuid, <<>>, DigestOf(<<"a">>)) :
        uuid \in {Uuids[1], Uuids[2]}}

RefinishInit ==
    /\ fs = RefinishStore
    /\ resp = Started
    /\ budget = [steps |-> MaxRequests, uploads |-> 0, puts |-> 0, deletes |-> 0,
                 minted |-> 3]
    /\ inflight = [t \in Threads |-> Idle]

\* the first idle thread takes a request
RefinishReceive(t) ==
    \E req \in RefinishRequests :
        /\ inflight[t].pc = "idle"
        /\ \A u \in Threads : u < t => inflight[u].pc # "idle"
        /\ SpendStep
        /\ inflight' = [inflight EXCEPT ![t] = Serving(req, "start", <<>>)]
        /\ UNCHANGED <<fs, resp>>

\* GET /v2/app/blobs/<digest of a>, served by a worker of its own
GetBlob ==
    /\ resp' = Served(Request("GET blob", <<"app">>, DigestOf(<<"a">>), <<>>, <<>>),
                      get_blob(fs, <<"app">>, DigestOf(<<"a">>)).res)
    /\ UNCHANGED <<fs, budget, inflight>>

RefinishNext ==
    \/ GetBlob
    \/ \E t \in Threads :
           \/ RefinishReceive(t)
           \/ FinishAppend(t)
           \/ FinishDigest(t)
           \/ FinishCreate(t)
           \/ FinishRename(t)
           \/ FinishRespond(t)

RefinishSpec == RefinishInit /\ [][RefinishNext]_vars

(***************************************************************************)
(* Two DELETE requests whose garbage collectors run side by side:          *)
(* SweepSpec.  A step of clean_storage is the listing of the blobs, the    *)
(* examination and removal of one blob, or remove_empty_dirs.              *)
(***************************************************************************)
\* thread t runs clean_storage: `todo` are the blobs of the pass that are
\* still to examine, `passes` the passes that are still to finish
Sweeping(req, pc, todo, passes) == [req |-> req, pc |-> pc, todo |-> todo, passes |-> passes]

\* the manifest that thread t deletes
SweepBodies == [t \in Threads |-> IF t = 1 THEN <<"M1">> ELSE <<"M2">>]

SweepInit ==
    /\ fs = ManifestStore
    /\ resp = Started
    /\ budget = [steps |-> 0, uploads |-> 0, puts |-> 0, deletes |-> 0, minted |-> 0]
    /\ inflight = [t \in Threads |->
                      Sweeping(Request("DELETE manifest", <<"app">>,
                                       DigestOf(SweepBodies[t]), <<>>, <<>>),
                               "start", <<>>, GcPasses)]

\* thread t goes on in clean_storage
SweepGoto(t, pc, todo, passes) ==
    /\ inflight' = [inflight EXCEPT ![t] = Sweeping(@.req, pc, todo, passes)]
    /\ resp' = resp
    /\ budget' = budget

\* thread t answers its request, and is done with it
SweepAnswer(t, pc, res) ==
    /\ inflight' = [inflight EXCEPT ![t] = Sweeping(@.req, pc, <<>>, @.passes)]
    /\ resp' = Served(inflight[t].req, res)
    /\ budget' = budget

\* delete_manifest up to clean_storage: the revision is checked, the tags
\* attached to it and the revision link are removed
SweepDelete(t) ==
    /\ inflight[t].pc = "start"
    /\ \E rd \in ReadDirOrders :
        LET image == inflight[t].req.image
            blob == from_str(inflight[t].req.ref).v
            revisions == manifests_revision_list(fs, image, rd)
            tags == get_tags_attached_to_manifest_blob(fs, image, blob, rd)
        IN  IF ~revisions.ok \/ ~tags.ok
            THEN fs' = fs /\ SweepAnswer(t, "failed", InternalServerError)
            ELSE IF blob \notin Range(revisions.v)
                 THEN fs' = fs /\ SweepAnswer(t, "done",
                                              DockerError(404, "MANIFEST_BLOB_UNKNOWN"))
            ELSE /\ fs' = remove_file(RemoveTags(fs, image, tags.v, 1),
                                      manifest_revision_path(image, blob))
                 /\ SweepGoto(t, "list", <<>>, inflight[t].passes)

\* clean_storage: get_blob_list at the start of a pass
SweepList(t) ==
    /\ inflight[t].pc = "list"
    /\ fs' = fs
    /\ \E rd \in ReadDirOrders :
           SweepGoto(t, "sweep", get_blob_list(fs, rd), inflight[t].passes)

\* clean_storage, once is_blob_useless has answered for the next blob:
\* remove_dir_all fails when the directory is there no more
SweepExamined(t, blob, useless) ==
    IF ~useless.ok THEN fs' = fs /\ SweepAnswer(t, "failed", InternalServerError)
    ELSE IF ~useless.v
         THEN fs' = fs /\ SweepGoto(t, "sweep", Tail(inflight[t].todo), inflight[t].passes)
    ELSE IF ~is_dir(fs, parent(data_path(blob)))
         THEN fs' = fs /\ SweepAnswer(t, "failed", InternalServerError)
    ELSE /\ fs' = remove_dir_all(fs, parent(data_path(blob)))
         /\ SweepGoto(t, "sweep", Tail(inflight[t].todo), inflight[t].passes)

\* clean_storage: the body of the loop over the blobs of a pass
SweepExamine(t) ==
    /\ inflight[t].pc = "sweep"
    /\ inflight[t].todo # <<>>
    /\ IF is_empty_ref(Head(inflight[t].todo))
       THEN fs' = fs /\ SweepGoto(t, "sweep", Tail(inflight[t].todo), inflight[t].passes)
       ELSE \E rd \in ReadDirOrders :
                SweepExamined(t, Head(inflight[t].todo),
                              is_blob_useless(Head(inflight[t].todo), fs, rd))

\* clean_storage: remove_empty_dirs at the end of a pass, and the response
\* of delete_manifest after the last pass
SweepDirs(t) ==
    /\ inflight[t].pc = "sweep"
    /\ inflight[t].todo = <<>>
    /\ fs' = remove_empty_dirs(fs, <<>>, FALSE)
    /\ IF inflight[t].passes = 1
       THEN /\ inflight' = [inflight EXCEPT ![t] = Sweeping(@.req, "done", <<>>, 0)]
            /\ resp' = Served(inflight[t].req, Response(202, NoHeaders))
            /\ budget' = budget
       ELSE SweepGoto(t, "list", <<>>, inflight[t].passes - 1)

SweepNext ==
    \E t \in Threads :
        \/ SweepDelete(t)
        \/ SweepList(t)
        \/ SweepExamine(t)
        \/ SweepDirs(t)

SweepSpec == SweepInit /\ [][SweepNext]_vars

(***************************************************************************)
(* One request through the dispatcher, with the configuration and the      *)
(* token it comes with: DispatchSpec.                                      *)
(***************************************************************************)
Methods == {"GET", "HEAD", "PUT", "DELETE", "POST", "PATCH"}

\* a digest whose hash is too short to parse
ShortDigest == <<"sha256", ":", "a">>

\* M1 pushed to app under the tag sha256x, then M2 under the tag v1
TaggedStore ==
    put_manifest(put_manifest(BlobStore, <<"app">>, <<"sha256x">>, <<"M1">>).fs,
                 <<"app">>, <<"v1">>, <<"M2">>).fs

\* The store that ConcSpec reaches when DELETE of M1 lists the tags of M1,
\* PUT of M1 under `tag` writes its links, and DELETE then removes the
\* revision and collects: the tag names M1, which is no revision of app.
DanglingStore(tag) ==
    clean_storage(remove_file(put_manifest(OpenStore, <<"app">>, tag, <<"M1">>).fs,
                              manifest_revision_path(<<"app">>,
                                                     from_sha256sum(sha256sum(<<"M1">>)))),
                  "fwd").fs

DispatchStores ==
    {BlobStore, ManifestStore, OpenStore, TaggedStore} \cup {DanglingStore(tag) : tag \in Tags}

HttpRequest(method, endpoint, image, ref, body, digest, token, need_auth) ==
    [method |-> method, endpoint |-> endpoint, image |-> image, ref |-> ref,
     body |-> body, digest |-> digest, token |-> token, need_auth |-> need_auth]

DispatchInit ==
    /\ fs \in DispatchStores
    /\ resp = Started
    /\ budget = [steps |-> 0, uploads |-> 0, puts |-> 0, deletes |-> 0, minted |-> 0]
    /\ inflight = <<>>

\* the request is dispatched and answered
Dispatch(req, rd, overflow_checks) ==
    /\ resp = Started
    /\ Respond(req, requests_dispatcher(fs, req.need_auth, req.token, req, rd,
                                        overflow_checks))
    /\ budget' = budget

TagsRequest ==
    \E method \in Methods, image \in Images, token \in Tokens, need_auth \in BOOLEAN,
       rd \in ReadDirOrders :
        Dispatch(HttpRequest(method, "tags/list", image, <<>>, <<>>, <<>>, token, need_auth),
                 rd, FALSE)

ManifestRequest ==
    \E method \in Methods, image \in Images, token \in Tokens, need_auth \in BOOLEAN,
       rd \in ReadDirOrders,
       ref \in Tags \cup {DigestOf(<<"M1">>), ShortDigest} :
        Dispatch(HttpRequest(method, "manifests", image, ref, <<"M1">>, <<>>, token,
                             need_auth),
                 rd, FALSE)

BlobRequest ==
    \E method \in Methods, image \in Images, token \in Tokens, need_auth \in BOOLEAN,
       ref \in {DigestOf(<<"a">>), DigestOf(<<"M1">>), ShortDigest, <<"sha256x">>} :
        Dispatch(HttpRequest(method, "blobs", image, ref, <<>>, <<>>, token, need_auth),
                 "fwd", FALSE)

UploadStartRequest ==
    \E method \in Methods, image \in Images, token \in Tokens, need_auth \in BOOLEAN :
        Dispatch(HttpRequest(method, "blobs/uploads/", image, Uuids[2], <<>>, <<>>, token,
                             need_auth),
                 "fwd", FALSE)

UploadRequest ==
    \E method \in Methods, token \in Tokens, need_auth \in BOOLEAN,
       uuid \in {Uuids[1], Uuids[2]}, body \in {<<>>, <<"b">>},
       digest \in {DigestOf(<<"a">>), <<>>}, overflow_checks \in BOOLEAN :
        Dispatch(HttpRequest(method, "blobs/uploads", <<"app">>, uuid, body, digest, token,
                             need_auth),
                 "fwd", overflow_checks)

DispatchNext ==
    \/ TagsRequest
    \/ ManifestRequest
    \/ BlobRequest
    \/ UploadStartRequest
    \/ UploadRequest

DispatchSpec == DispatchInit /\ [][DispatchNext]_vars

(***************************************************************************)
(* The read-only views of a store and one run of the garbage collector:    *)
(* QuerySpec.  A store is drawn, and one question is asked of it.          *)
(***************************************************************************)
QueryImages == Images \cup {<<"lib">>}

QueryBodies == {<<"M1">>, <<"ML">>, <<"MU">>}

\* the requests that fill a store: PUT of a manifest under the tag v1 or
\* under its digest, and POST of an upload
Fillings ==
    {[op |-> "PUT", image |-> image, tagged |-> tagged, body |-> body] :
        image \in QueryImages, tagged \in BOOLEAN, body \in QueryBodies}
    \cup {[op |-> "POST", image |-> image, tagged |-> FALSE, body |-> <<>>] :
              image \in QueryImages}

Fill(f, x) ==
    IF x.op = "POST" THEN start_blob_upload(f, x.image, Uuids[1]).fs
    ELSE put_manifest(f, x.image, IF x.tagged THEN <<"v1">> ELSE DigestOf(x.body),
                      x.body).fs

RECURSIVE FillAll(_, _)
FillAll(f, xs) == IF xs = <<>> THEN f ELSE FillAll(Fill(f, Head(xs)), Tail(xs))

\* the stores that at most MaxFillings requests make of the pushed blobs
Filled ==
    {FillAll(BlobStore, xs) : xs \in UNION {[1..n -> Fillings] : n \in 0..MaxFillings}}

\* M1, ML and the lists L2, L3 and L4 nested above ML, pushed to app
ChainStore ==
    PushManifest(PushManifest(PushManifest(PushManifest(PushManifest(BlobStore,
        <<"app">>, <<"M1">>), <<"app">>, <<"ML">>), <<"app">>, <<"L2">>),
        <<"app">>, <<"L3">>), <<"app">>, <<"L4">>)

\* An upload of `first` that is finished with the digest of `first`, while
\* a PATCH of `rest` is served between the digest check and the rename of
\* blob_upload_finish (FinishDigest, PatchAppend, FinishCreate and
\* FinishRename of ConcSpec): the blob named after `first` holds both.
TornFinish(f, image, uuid, first, rest) ==
    rename(create_empty_file(
               blob_upload_patch(
                   blob_upload_patch(start_blob_upload(f, image, uuid).fs, image, uuid,
                                     first).fs,
                   image, uuid, rest).fs,
               data_path(from_sha256sum(sha256sum(first)))),
           upload_storage_path(image, uuid),
           data_path(from_sha256sum(sha256sum(first))))

\* LB pushed to app, and the list that names itself stored under the name
\* LB gives it
SelfStore ==
    PushManifest(TornFinish(BlobStore, <<"app">>, Uuids[1], <<"LS1">>, <<"LS2">>),
                 <<"app">>, <<"LB">>)

\* LB pushed to app, and the list that names LB stored under the name LB
\* gives it
CycleStore ==
    PushManifest(TornFinish(BlobStore, <<"app">>, Uuids[1], <<"LA1">>, <<"LA2">>),
                 <<"app">>, <<"LB">>)

\* M1 pushed to app and to app/sub, and the revision link of app removed:
\* the store on which the DELETE of M1 from app runs the garbage collector
UnlinkedStore ==
    remove_file(PushManifest(PushManifest(BlobStore, <<"app">>, <<"M1">>),
                             <<"app", "/", "sub">>, <<"M1">>),
                manifest_revision_path(<<"app">>, from_sha256sum(sha256sum(<<"M1">>))))

QueryStores == Filled \cup {EmptyFs, ChainStore, SelfStore, CycleStore, UnlinkedStore}

\* the blobs that are asked about: those of the store, and those that the
\* documents name
QueryRefs(f, rd) ==
    Range(get_blob_list(f, rd))
        \cup {from_sha256sum(sha256sum(c)) :
                  c \in {<<>>, <<"a">>, <<"b">>, <<"a", "b">>, <<"M1">>, <<"M2">>}}

Query(op, arg, rd) == [op |-> op, arg |-> arg, rd |-> rd]

QueryInit ==
    /\ fs \in QueryStores
    /\ resp = Started
    /\ budget = [steps |-> 0, uploads |-> 0, puts |-> 0, deletes |-> 0, minted |-> 0]
    /\ inflight = <<>>

\* storage::is_blob_useless of one blob
IsBlobUseless ==
    \E rd \in ReadDirOrders :
      \E blob_ref \in QueryRefs(fs, rd) :
        /\ resp = Started
        /\ resp' = Served(Query("is_blob_useless", blob_ref, rd),
                          is_blob_useless(blob_ref, fs, rd))
        /\ UNCHANGED <<fs, budget, inflight>>

\* what a run of the garbage collector tells its caller
Collected(gc) == IF gc.ok THEN Ok(TRUE) ELSE [ok |-> FALSE, why |-> gc.why]

\* storage::clean_storage
CleanStorage ==
    \E rd \in ReadDirOrders :
        /\ resp = Started
        /\ fs' = clean_storage(fs, rd).fs
        /\ resp' = Served(Query("clean_storage", <<>>, rd), Collected(clean_storage(fs, rd)))
        /\ UNCHANGED <<budget, inflight>>

\* storage::get_docker_images_list
ImagesList ==
    \E rd \in ReadDirOrders :
        /\ resp = Started
        /\ resp' = Served(Query("get_docker_images_list", <<>>, rd),
                          Ok(get_docker_images_list(fs, rd)))
        /\ UNCHANGED <<fs, budget, inflight>>

\* the values of ?last=: none, a repository, or a name that is none
CatalogLasts == {None} \cup {Some(image) : image \in QueryImages \cup {<<"sub">>}}

\* the values of ?n=
CatalogCounts == {None} \cup {Some(n) : n \in 0..MaxFillings}

\* GET /v2/_catalog
Catalog ==
    \E rd \in ReadDirOrders, last \in CatalogLasts, n \in CatalogCounts :
        /\ resp = Started
        /\ resp' = Served(Query("GET catalog", [last |-> last, n |-> n], rd),
                          catalog(fs, last, n, rd))
        /\ UNCHANGED <<fs, budget, inflight>>

QueryNext ==
    \/ IsBlobUseless
    \/ CleanStorage
    \/ ImagesList
    \/ Catalog

QuerySpec == QueryInit /\ [][QueryNext]_vars

(***************************************************************************)
(* Digest parsing and formatting on their own: ParseSpec.  One string is   *)
(* drawn, parsed by from_str and, when it is accepted, formatted again by  *)
(* to_digest.                                                              *)
(***************************************************************************)
DigestTokens == {":", "a", "abc", "sha256"}

\* the strings of at most MaxDigestLen tokens
DigestInputs == UNION {[1..n -> DigestTokens] : n \in 0..MaxDigestLen}

ParseInit ==
    /\ fs = EmptyFs
    /\ resp = Started
    /\ budget = [steps |-> 0, uploads |-> 0, puts |-> 0, deletes |-> 0, minted |-> 0]
    /\ inflight = <<>>

\* BlobReference::from_str of one string
Parse ==
    \E content \in DigestInputs :
        /\ resp = Started
        /\ resp' = Served(Request("from_str", <<>>, content, <<>>, <<>>), from_str(content))
        /\ UNCHANGED <<fs, budget, inflight>>

\* BlobReference::to_digest of the reference that was parsed
Format ==
    /\ resp.req.op = "from_str"
    /\ resp.res.ok
    /\ resp' = Served(Request("to_digest", <<>>, resp.req.ref, <<>>, <<>>),
                      Ok(to_digest(resp.res.v)))
    /\ UNCHANGED <<fs, budget, inflight>>

ParseNext ==
    \/ Parse
    \/ Format

ParseSpec == ParseInit /\ [][ParseNext]_vars

(***************************************************************************)
(* Properties of the upload state machine, checked under UploadSpec.       *)
(***************************************************************************)
BlobsDir == join(BASE_PATH, <<"blobs">>)

\* the files under blobs/, with what they hold
StoredBlobs(f) == Restrict(f.files, {p \in DOMAIN f.files : IsUnder(p, BlobsDir)})

\* this step answers PUT ?digest= on the session s, which was open
FinishesSession(s) ==
    /\ s \in Sessions
    /\ resp'.req.op = "PUT upload"
    /\ resp'.req.image = s[1]
    /\ resp'.req.ref = s[2]

\* the bytes of session s once the body of the PUT is appended
Accumulated(s) == SessionFile(s) \o resp'.req.body

\* C4: a blob pushed in chunks and finished with its digest is answered
\* 201, and a following GET of the digest returns 200, the bytes and the
\* digest.
C4_Step ==
    \A s \in Images \X Range(Uuids) :
        FinishesSession(s) /\ resp'.req.digest = DigestOf(Accumulated(s))
        => /\ resp'.res.status = 201
           /\ get_blob(fs', s[1], resp'.req.digest).res.status = 200
           /\ get_blob(fs', s[1], resp'.req.digest).res.body = Accumulated(s)
           /\ get_blob(fs', s[1], resp'.req.digest).res.digest = resp'.req.digest

C4_PushThenGet == [][C4_Step]_vars

\* C6: a PUT whose digest is the one of the accumulated file is answered
\* 201 with the blob's Location, the session file is gone and the blob's
\* data file holds the accumulated bytes.
C6_Step ==
    \A s \in Images \X Range(Uuids) :
        FinishesSession(s) /\ resp'.req.digest = DigestOf(Accumulated(s))
        => /\ resp'.res.status = 201
           /\ resp'.res.location =
                  join(join(join(join(ACCESS_URL, <<"v2">>), s[1]), <<"blobs">>),
                       resp'.req.digest)
           /\ ~exists(fs', upload_storage_path(s[1], s[2]))
           /\ is_file(fs', data_path(from_str(resp'.req.digest).v))
           /\ fs'.files[data_path(from_str(resp'.req.digest).v)] = Accumulated(s)

C6_FinishMovesTheFile == [][C6_Step]_vars

\* C7: a PUT whose digest is not the one of the accumulated file, or that
\* has no digest, is answered 400 DIGEST_INVALID; the session file stays,
\* with the body appended, and nothing under blobs/ changes.
C7_Step ==
    \A s \in Images \X Range(Uuids) :
        FinishesSession(s) /\ resp'.req.digest # DigestOf(Accumulated(s))
        => /\ resp'.res.status = 400
           /\ resp'.res.code = "DIGEST_INVALID"
           /\ is_file(fs', upload_storage_path(s[1], s[2]))
           /\ fs'.files[upload_storage_path(s[1], s[2])] = Accumulated(s)
           /\ StoredBlobs(fs') = StoredBlobs(fs)

C7_BadDigestRejected == [][C7_Step]_vars

\* C7 happens: a PUT without digest on a session that held bytes, with a
\* body, was refused, and the session file holds both
C7_Witness ==
    /\ resp.req.op = "PUT upload"
    /\ resp.req.digest = <<>>
    /\ resp.req.body # <<>>
    /\ resp.res.status = 400
    /\ is_file(fs, upload_storage_path(resp.req.image, resp.req.ref))
    /\ Len(fs.files[upload_storage_path(resp.req.image, resp.req.ref)]) = 2

\* C8: finishing a session of zero bytes with an empty body and the digest
\* of the empty blob is answered 201 and the session is finalized.
C8_Step ==
    \A s \in Images \X Range(Uuids) :
        /\ FinishesSession(s)
        /\ SessionFile(s) = <<>>
        /\ resp'.req.body = <<>>
        /\ resp'.req.digest = DigestOf(<<>>)
        => /\ resp'.res.status = 201
           /\ ~exists(fs', upload_storage_path(s[1], s[2]))
           /\ is_file(fs', data_path(from_sha256sum(<<EmptyHex>>)))

C8_EmptyFinish == [][C8_Step]_vars

(***************************************************************************)
(* Properties of the manifest store and of the garbage collector, checked  *)
(* under Spec.  What a store references is defined here from the links and *)
(* the documents themselves, for every repository a request can name,      *)
(* whether or not the garbage collector finds the repository.              *)
(***************************************************************************)
\* the revisions and the tag targets of one repository
LinkRootsOf(f, image) ==
    Range(manifests_revision_list(f, image, "fwd").v)
        \cup {from_file(f, manifest_tag_link_path(image, tags_list(f, image, "fwd")[i])).v :
                  i \in DOMAIN tags_list(f, image, "fwd")}

LinkRoots(f) == UNION {LinkRootsOf(f, image) : image \in Images}

RefsOf(refs) == {from_docker_blob_ref(refs[i]).v : i \in DOMAIN refs}

\* the blobs that the document stored as r names
ViewRefs(m) ==
    IF get_manifest_view(m) # None
    THEN RefsOf(<<get_manifest_view(m)[1].config>>) \cup RefsOf(get_manifest_view(m)[1].layers)
    ELSE IF get_manifests_list(m) # None
         THEN RefsOf(get_manifests_list(m)[1].manifests)
    ELSE {}

DocumentRefs(f, r) ==
    IF read_json(f, data_path(r)).ok THEN ViewRefs(read_json(f, data_path(r)).v) ELSE {}

RECURSIVE Closure(_, _)
\* the transitive closure of the references S through the documents of f
Closure(S, f) ==
    IF UNION {DocumentRefs(f, r) : r \in S} \subseteq S THEN S
    ELSE Closure(S \cup UNION {DocumentRefs(f, r) : r \in S}, f)

HasBlob(f, r) == is_file(f, data_path(r))

\* this step answers 202 to a DELETE of a manifest
DeletesManifest == resp'.req.op = "DELETE manifest" /\ resp'.res.status = 202

\* C1: after a DELETE that is answered 202, (a) no blob that only the
\* closure of the deleted manifest referenced remains, and (b) every blob
\* that is a tag target, a revision, or in the graph of a manifest that
\* remains in any repository still exists.
C1_Step ==
    DeletesManifest
    => /\ \A r \in Closure({from_str(resp'.req.ref).v}, fs) \ Closure(LinkRoots(fs'), fs) :
              ~HasBlob(fs', r)
       /\ \A r \in Closure(LinkRoots(fs'), fs) : HasBlob(fs, r) => HasBlob(fs', r)

C1_DeleteSweepsExactly == [][C1_Step]_vars

\* what GET of a manifest must answer for a manifest that was pushed
ServesManifest(got, manifest) ==
    /\ got.status = 200
    /\ got.body = manifest
    /\ got.digest = DigestOf(manifest)

\* C5: once a manifest is pushed under a tag that is no digest, the PUT has
\* answered the digest of the body, and GET by that digest and GET by the
\* tag both answer the body and the digest.
C5_PutThenGet ==
    resp.req.op = "PUT manifest" /\ ~is_valid_reference(resp.req.ref)
    => /\ resp.res.digest = DigestOf(resp.req.body)
       /\ \A rd \in ReadDirOrders, image_ref \in {resp.req.ref, DigestOf(resp.req.body)} :
              ServesManifest(get_manifest(fs, resp.req.image, image_ref, rd).res,
                             resp.req.body)

EmptyBlobPath == data_path(from_sha256sum(<<EmptyHex>>))

\* C9: a run of the garbage collector, at startup or after a DELETE of a
\* manifest, leaves the data file of the empty blob where it is.
C9_Step ==
    resp'.req.op \in {"startup", "DELETE manifest"} /\ is_file(fs, EmptyBlobPath)
    => is_file(fs', EmptyBlobPath)

C9_EmptyBlobSurvives == [][C9_Step]_vars

\* C9 happens: the collector has swept the blob a, which nothing referenced,
\* and the empty blob, which nothing references either, is there
C9_Witness ==
    /\ resp.req.op \in {"startup", "DELETE manifest"}
    /\ is_file(fs, EmptyBlobPath)
    /\ ~HasBlob(fs, from_sha256sum(sha256sum(<<"a">>)))
    /\ EmptyBlobPath \notin {data_path(r) : r \in Closure(LinkRoots(fs), fs)}

\* the tag targets of one repository
TagTargetsOf(f, image) ==
    {from_file(f, manifest_tag_link_path(image, tags_list(f, image, "fwd")[i])).v :
        i \in DOMAIN tags_list(f, image, "fwd")}

ListRef == from_sha256sum(sha256sum(<<"ML">>))

ChildRefs == {from_sha256sum(sha256sum(<<"M1">>)), from_sha256sum(sha256sum(<<"M2">>))}

\* the manifest list is pushed under a tag of the repository, and both of
\* its children are pushed to the repository
ListAndChildrenPushed(f, image) ==
    /\ ListRef \in TagTargetsOf(f, image)
    /\ ChildRefs \subseteq Range(manifests_revision_list(f, image, "fwd").v)

\* C10: after the DELETE of a manifest list whose children were pushed to
\* the repository, a child that is tagged by itself still exists, and a
\* child that only the list reached is deleted.
C10_Step ==
    \A image \in Images :
        /\ DeletesManifest
        /\ resp'.req.image = image
        /\ resp'.req.ref = to_digest(ListRef)
        /\ ListAndChildrenPushed(fs, image)
        => \A child \in ChildRefs :
               /\ child \in TagTargetsOf(fs, image) => HasBlob(fs', child)
               /\ (\A other \in Images : child \notin TagTargetsOf(fs, other))
                      => ~HasBlob(fs', child)

C10_ChildrenOfDeletedList == [][C10_Step]_vars

(***************************************************************************)
(* Properties of the store while requests are in flight, checked under     *)
(* ConcSpec.                                                               *)
(***************************************************************************)
\* the data files of the blobs
BlobDataFiles(f) ==
    {p \in DOMAIN f.files : IsUnder(p, BlobsDir) /\ file_name(p) = <<"data">>}

\* the data file p holds bytes whose sha256 is the name of its directory
HoldsItsDigest(f, p) == file_name(parent(p)) = sha256sum(f.files[p])

\* no request is being served
Quiet == \A t \in Threads : inflight[t].pc = "idle"

\* C2: in every state, between the file system calls of the handlers too,
\* every data file under blobs/ holds bytes whose sha256 is the hex string
\* of its path.
C2_BlobsHoldTheirDigest == \A p \in BlobDataFiles(fs) : HoldsItsDigest(fs, p)

\* C2 fails for good: every request is answered, and a blob holds bytes,
\* more than none, that its digest does not name
C2_Witness ==
    /\ Quiet
    /\ \E p \in BlobDataFiles(fs) : fs.files[p] # <<>> /\ ~HoldsItsDigest(fs, p)

\* the link of a tag holds a digest that is among the revisions
TagIsRevision(link, revisions) ==
    link.ok /\ revisions.ok /\ link.v \in Range(revisions.v)

\* C3: in every state, every tag that tags_list lists holds in its link
\* a digest that manifests_revision_list of the repository returns.
C3_TagsPointToRevisions ==
    \A image \in Images, rd \in ReadDirOrders :
        \A i \in DOMAIN tags_list(fs, image, rd) :
            TagIsRevision(from_file(fs, manifest_tag_link_path(image,
                                                              tags_list(fs, image, rd)[i])),
                          manifests_revision_list(fs, image, rd))

\* a tag whose link holds a digest that is no revision of the repository
DanglingTag(link, revisions) ==
    link.ok /\ revisions.ok /\ link.v \notin Range(revisions.v)

\* C3 fails for good: every request is answered, and a tag holds the
\* digest of a manifest that is no revision of its repository
C3_Witness ==
    /\ Quiet
    /\ \E image \in Images :
           \E i \in DOMAIN tags_list(fs, image, "fwd") :
               DanglingTag(from_file(fs, manifest_tag_link_path(
                                             image, tags_list(fs, image, "fwd")[i])),
                           manifests_revision_list(fs, image, "fwd"))


(***************************************************************************)
(* More properties of the upload state machine, checked under UploadSpec.  *)
(***************************************************************************)
\* the session file of s after PATCH requests with the given bodies, in order
RECURSIVE Patched(_, _, _)
Patched(f, s, bodies) ==
    IF bodies = <<>> THEN f.files[upload_storage_path(s[1], s[2])]
    ELSE Patched(blob_upload_patch(f, s[1], s[2], Head(bodies)).fs, s, Tail(bodies))

\* C13: on every open session, PATCH of a, then of b, then of c leaves the
\* session file with what one PATCH of a.b.c leaves: the previous contents
\* followed by a, b and c.
C13_PatchIsAssociative ==
    \A s \in Sessions, a \in Chunks, b \in Chunks, c \in Chunks :
        /\ Patched(fs, s, <<a, b, c>>) = Patched(fs, s, <<a \o b \o c>>)
        /\ Patched(fs, s, <<a, b, c>>) = SessionFile(s) \o a \o b \o c

\* C13 happens: a session that held a was sent PATCH of b and holds a.b
C13_Witness ==
    /\ resp.req.op = "PATCH"
    /\ resp.req.body = <<"b">>
    /\ resp.res.status = 202
    /\ (<<resp.req.image, resp.req.ref>>) \in Sessions
    /\ SessionFile(<<resp.req.image, resp.req.ref>>) = <<"a", "b">>

\* the session file that the answered request names
AnsweredPath == upload_storage_path(resp'.req.image, resp'.req.ref)

\* Range: 0-0 for a file of no byte, 0-(n-1) for a file of n
RangeFor(n) == <<0, IF n = 0 THEN 0 ELSE n - 1>>

\* C14: POST, PATCH and GET on a session answer 202, 202 and 204 with the
\* Range of the session file as the request leaves it; POST leaves a file
\* of no byte, PATCH of k bytes a file k bytes longer, GET the same file.
C14_Step ==
    /\ resp'.req.op = "POST"
       => /\ resp'.res.status = 202
          /\ FileLen(fs', AnsweredPath) = 0
          /\ resp'.res.range = RangeFor(0)
    /\ resp'.req.op = "PATCH"
       => /\ resp'.res.status = 202
          /\ FileLen(fs', AnsweredPath) = FileLen(fs, AnsweredPath) + StrLen(resp'.req.body)
          /\ resp'.res.range = RangeFor(FileLen(fs', AnsweredPath))
    /\ resp'.req.op = "GET upload"
       => /\ resp'.res.status = 204
          /\ fs' = fs
          /\ resp'.res.range = RangeFor(FileLen(fs, AnsweredPath))

C14_RangeOfSession == [][C14_Step]_vars

\* C14 happens: a PATCH left a file of two bytes and was answered Range 0-1
C14_Witness ==
    /\ resp.req.op = "PATCH"
    /\ resp.req.body # <<>>
    /\ resp.res.status = 202
    /\ resp.res.range = <<0, 1>>

(***************************************************************************)
(* Properties of digest parsing, checked under ParseSpec.                  *)
(***************************************************************************)
Colons(content) == {i \in DOMAIN content : content[i] = ":"}

\* the parts left and right of the one ':' of a string that has just one
LeftOf(content) == SubSeq(content, 1, (CHOOSE i \in Colons(content) : TRUE) - 1)

RightOf(content) ==
    SubSeq(content, (CHOOSE i \in Colons(content) : TRUE) + 1, Len(content))

\* C15: from_str accepts a string if and only if it has exactly one ':',
\* a non-empty left side and a right side of three characters or more.
C15_ParsesWellFormedOnly ==
    resp.req.op = "from_str"
    => (resp.res.ok <=> /\ Cardinality(Colons(resp.req.ref)) = 1
                        /\ LeftOf(resp.req.ref) # <<>>
                        /\ StrLen(RightOf(resp.req.ref)) >= 3)

\* C15 happens: a string with an empty left side was accepted
C15_Witness ==
    /\ resp.req.op = "from_str"
    /\ resp.req.ref = <<":", "abc">>
    /\ resp.res.ok

\* C16: formatting the reference that from_str made of an accepted string
\* gives the string back.
C16_FormatOfParse ==
    /\ resp.req.op = "from_str" /\ resp.res.ok => to_digest(resp.res.v) = resp.req.ref
    /\ resp.req.op = "to_digest" => resp.res.v = resp.req.ref

\* C16 happens: a string with two ':' was parsed and formatted
C16_Witness ==
    /\ resp.req.op = "to_digest"
    /\ resp.req.ref = <<"sha256", ":", "abc", ":", "a">>
    /\ resp.res.v = <<"sha256", ":", "abc", ":", "a">>

(***************************************************************************)
(* Properties of the views of a store, checked under QuerySpec.            *)
(***************************************************************************)
RepositoriesDir == join(BASE_PATH, <<"repositories">>)

\* the directories below repositories/ that are not inside a _manifests or
\* _uploads directory and have a direct child directory _manifests, by
\* their paths relative to repositories/
Repositories(f) ==
    {SubSeq(p, Len(RepositoriesDir) + 2, Len(p)) :
        p \in {q \in f.dirs : /\ IsUnder(q, RepositoriesDir)
                              /\ q # RepositoriesDir
                              /\ "_manifests" \notin Range(q)
                              /\ "_uploads" \notin Range(q)
                              /\ join(q, <<"_manifests">>) \in f.dirs}}

\* C18: get_docker_images_list returns, sorted, exactly the directories
\* that have a direct child directory _manifests, nested repositories and
\* siblings included, whatever the order in which directories are read.
C18_ListsEveryRepository ==
    resp.req.op = "get_docker_images_list"
    => resp.res.v = SortStrings(SetToSeq(Repositories(fs)))

\* C18 happens: the repositories app and app/sub both hold manifests, and
\* the list names app alone
C18_Witness ==
    /\ resp.req.op = "get_docker_images_list"
    /\ {<<"app">>, <<"app", "/", "sub">>} \subseteq Repositories(fs)
    /\ resp.res.v = <<<<"app">>>>

\* the revisions and tag targets of every repository that a request can name
AllLinkRoots(f) == UNION {LinkRootsOf(f, image) : image \in QueryImages}

\* no manifest of the store is reachable from itself
Acyclic(f) ==
    \A r \in Closure(AllLinkRoots(f), f) : r \notin Closure(DocumentRefs(f, r), f)

\* the reference definition: the empty blob, a tag target, a revision, or a
\* blob that the manifest graph reaches from one of these
Live(f, b) == is_empty_ref(b) \/ b \in Closure(AllLinkRoots(f), f)

\* the decision of the garbage collector: it skips the empty blob and keeps
\* the blobs for which is_blob_useless answers false
Kept(b, useless) == is_empty_ref(b) \/ (useless.ok /\ ~useless.v)

\* C11: in a store whose manifest graph has no cycle, the garbage collector
\* keeps a blob if and only if the blob is live by the reference definition.
C11_KeptIffLive ==
    resp.req.op = "is_blob_useless" /\ Acyclic(fs)
    => (Kept(resp.req.arg, resp.res) <=> Live(fs, resp.req.arg))

\* C11 happens: a blob that a tag of app/sub names is found useless
C11_Witness ==
    /\ resp.req.op = "is_blob_useless"
    /\ Acyclic(fs)
    /\ resp.req.arg \in LinkRootsOf(fs, <<"app", "/", "sub">>)
    /\ resp.res.ok
    /\ resp.res.v

\* C12: the liveness check and the garbage collector come to an end on
\* every manifest graph that can be stored, a list that names itself and
\* lists that name each other included: the recursion never runs out of
\* stack.
C12_GcTerminates ==
    resp.req.op \in {"is_blob_useless", "clean_storage"} => resp.res # StackOverflow

\* C12 happens: the garbage collector ran out of stack on two lists that
\* name each other
C12_Witness ==
    /\ resp.req.op = "clean_storage"
    /\ ~Acyclic(fs)
    /\ HasBlob(fs, from_sha256sum(sha256sum(<<"LA1">>)))
    /\ resp.res = StackOverflow

\* the first n entries of a list, or all of them when there are fewer or
\* when no n is given
FirstN(list, n) == IF n = None THEN list ELSE SubSeq(list, 1, Min(n[1], Len(list)))

\* the repositories strictly after `last` when `last` is one of them, all
\* of them when it is absent or unknown
AfterLast(images, last) ==
    IF last # None /\ last[1] \in Range(images)
    THEN SelectSeq(images, LAMBDA image : LexLess(last[1], image))
    ELSE images

\* C17: the catalog answers the repositories strictly after `last` when
\* `last` is a repository, the last one included, and from the first one
\* on when `last` is absent or unknown; at most n of them, none for n = 0,
\* and none for an empty registry.
C17_CatalogPage ==
    resp.req.op = "GET catalog"
    => /\ resp.res.status = 200
       /\ resp.res.body = FirstN(AfterLast(get_docker_images_list(fs, resp.req.rd),
                                           resp.req.arg.last),
                                 resp.req.arg.n)

\* C17 happens: `last` is the final repository of the list, n is 0, and the
\* catalog answers that repository
C17_Witness ==
    /\ resp.req.op = "GET catalog"
    /\ get_docker_images_list(fs, resp.req.rd) = <<<<"app">>, <<"lib">>>>
    /\ resp.req.arg = [last |-> Some(<<"lib">>), n |-> Some(0)]
    /\ resp.res.body = <<<<"lib">>>>

(***************************************************************************)
(* Properties of the dispatcher (DispatchSpec).                            *)
(***************************************************************************)
WriteVerbs == {"PUT", "DELETE", "POST", "PATCH"}

WriteEndpoints == {"manifests", "blobs", "blobs/uploads/", "blobs/uploads"}

\* the request that was answered is a write without the token of a user
UnauthenticatedWrite(r) ==
    /\ r.req.method \in WriteVerbs
    /\ r.req.endpoint \in WriteEndpoints
    /\ r.req.token # "user"

C19_Step ==
    (resp = Started /\ resp' # Started /\ UnauthenticatedWrite(resp'))
        => /\ resp'.res.status = 401
           /\ resp'.res.authenticate = <<"Bearer", "insufficient_scope">>
           /\ fs' = fs

\* C19: a write verb on a manifest, blob or upload endpoint that does not
\* carry the valid token of a user is answered 401 with the error
\* insufficient_scope and leaves the storage as it was, whether credentials
\* are configured or not.
C19_WriteNeedsUser == [][C19_Step]_vars

\* C19: without configured credentials a manifest was put with no token at
\* all, and it was created.
C19_Witness ==
    /\ resp # Started
    /\ UnauthenticatedWrite(resp)
    /\ ~resp.req.need_auth
    /\ resp.req.token = "none"
    /\ resp.req.endpoint = "manifests"
    /\ resp.req.method = "PUT"
    /\ resp.res.status = 201

\* the request that was answered needed a digest, got a text that is not one,
\* and was let through by the authentication
MalformedDigestRequest(r) ==
    /\ ~from_str(r.req.ref).ok
    /\ \/ r.req.endpoint = "blobs" /\ r.req.method \in {"GET", "HEAD"}
       \/ r.req.endpoint = "manifests" /\ r.req.method = "DELETE"
       \/ /\ r.req.endpoint = "manifests"
          /\ r.req.method \in {"GET", "HEAD"}
          /\ StartsWithSha256(r.req.ref)
    /\ \/ ~r.req.need_auth
       \/ r.req.token = "user"

C20_Step ==
    (resp = Started /\ resp' # Started /\ MalformedDigestRequest(resp'))
        => /\ resp'.res.code = "DIGEST_INVALID"
           /\ resp'.res.status # 500
           /\ fs' = fs

\* C20: a request that needs a digest and supplies a text that is not one is
\* answered with the error DIGEST_INVALID, never with a bare 500, and the
\* storage is as it was.
C20_MalformedDigestIsReported == [][C20_Step]_vars

\* C20: a blob was asked for by a digest whose hash is too short, and the
\* answer is a 500 without error code.
C20_Witness ==
    /\ resp # Started
    /\ MalformedDigestRequest(resp)
    /\ resp.req.endpoint = "blobs"
    /\ resp.req.method = "GET"
    /\ resp.req.ref = ShortDigest
    /\ resp.res.status = 500
    /\ resp.res.code = ""

(***************************************************************************)
(* Properties of the manifest endpoints behind the dispatcher              *)
(* (DispatchSpec).                                                         *)
(***************************************************************************)
\* check_auth lets the request through
PassesAuth(r) == ~r.req.need_auth \/ r.req.token \in {"anonymous", "user"}

\* the request that was answered is a GET or HEAD of a manifest
ManifestRead(r) ==
    /\ r.req.endpoint = "manifests"
    /\ r.req.method \in {"GET", "HEAD"}
    /\ PassesAuth(r)

\* the digest a reference stands for: itself when it parses as a digest,
\* the content of the link of the tag otherwise
Resolved(f, r) ==
    IF is_valid_reference(r.req.ref) THEN from_str(r.req.ref)
    ELSE from_file(f, manifest_tag_link_path(r.req.image, r.req.ref))

\* the revisions of the repository of the request
RevisionsOf(f, r) ==
    IF manifests_revision_list(f, r.req.image, "fwd").ok
    THEN Range(manifests_revision_list(f, r.req.image, "fwd").v)
    ELSE {}

\* the reference resolves to a revision of the repository whose blob is stored
ResolvesToStored(f, r) ==
    /\ Resolved(f, r).ok
    /\ Resolved(f, r).v \in RevisionsOf(f, r)
    /\ is_file(f, data_path(Resolved(f, r).v))

C21_Step ==
    (resp = Started /\ resp' # Started /\ ManifestRead(resp'))
        => /\ (/\ ~is_valid_reference(resp'.req.ref)
               /\ ~exists(fs, manifest_tag_link_path(resp'.req.image, resp'.req.ref)))
                  => (resp'.res.status = 404 /\ resp'.res.code = "MANIFEST_UNKNOWN")
           /\ ResolvesToStored(fs, resp')
                  => /\ resp'.res.status = 200
                     /\ resp'.res.digest = to_digest(Resolved(fs, resp').v)
                     /\ resp'.res.body = fs.files[data_path(Resolved(fs, resp').v)]

\* C21: GET of a manifest takes the reference as the digest when it parses
\* as one, and in every other case, tags that begin with sha256 included,
\* resolves it through the link of the tag: 404 MANIFEST_UNKNOWN when there
\* is no such link, the manifest the link names when there is.
C21_ReferenceResolution == [][C21_Step]_vars

\* C21: the tag sha256x of app names M1, GET of app at sha256x was answered,
\* and the answer is a 500.
C21_Witness ==
    /\ resp # Started
    /\ ManifestRead(resp)
    /\ resp.req.ref = <<"sha256x">>
    /\ ResolvesToStored(fs, resp)
    /\ resp.res.status = 500

\* the request that was answered is a GET, HEAD or DELETE of a manifest that
\* the authentication lets through
ManifestLookup(r) ==
    /\ r.req.endpoint = "manifests"
    /\ \/ r.req.method \in {"GET", "HEAD"} /\ PassesAuth(r)
       \/ /\ r.req.method = "DELETE"
          /\ is_valid_reference(r.req.ref)
          /\ (~r.req.need_auth \/ r.req.token = "user")

\* the reference resolves to a digest that is no revision of the repository
ResolvesToNoRevision(f, r) ==
    /\ Resolved(f, r).ok
    /\ Resolved(f, r).v \notin RevisionsOf(f, r)

C22_Step ==
    (/\ resp = Started
     /\ resp' # Started
     /\ ManifestLookup(resp')
     /\ ResolvesToNoRevision(fs, resp'))
        => /\ resp'.res.status = 404
           /\ resp'.res.code = "MANIFEST_BLOB_UNKNOWN"
           /\ fs' = fs

\* C22: GET, HEAD and DELETE of a manifest whose resolved digest is no
\* revision of the repository are answered 404 MANIFEST_BLOB_UNKNOWN and
\* leave the storage as it was, also when another repository holds the
\* manifest.
C22_UnknownRevision == [][C22_Step]_vars

\* C22: the tag sha256x of app names M1, which is no revision of app, GET of
\* app at sha256x was answered, and the answer is a 500.
C22_Witness ==
    /\ resp # Started
    /\ ManifestLookup(resp)
    /\ ResolvesToNoRevision(fs, resp)
    /\ resp.req.ref = <<"sha256x">>
    /\ resp.res.status = 500

(***************************************************************************)
(* Properties of the finalization of an upload whose blob is already       *)
(* stored (RefinishSpec).                                                  *)
(***************************************************************************)
\* the files of the store that are no upload sessions
StoredFiles(f) ==
    Restrict(f.files, {p \in DOMAIN f.files : file_name(parent(p)) # <<"_uploads">>})

\* no request is in flight
AllIdle == \A t \in Threads : inflight[t].pc = "idle"

\* a finalization has been answered 201 and no request is in flight
Refinished ==
    /\ AllIdle
    /\ resp.req.op = "PUT upload"
    /\ resp.res.status = 201

\* C23: when an upload is finished with the digest of a blob that is stored
\* already, the store ends as it was but for the session, and every GET of
\* the blob that is served meanwhile answers the whole content.
C23_RefinishKeepsBlob ==
    /\ resp.req.op = "GET blob"
           => resp.res.status = 200 /\ resp.res.body = <<"a">>
    /\ Refinished
           => /\ StoredFiles(fs) = StoredFiles(RefinishStore)
              /\ ~exists(fs, upload_storage_path(resp.req.image, resp.req.ref))

\* C23: a finalization has created its destination and not yet renamed the
\* session file, and a GET of the blob was answered 200 with no bytes.
C23_Witness ==
    /\ \E t \in Threads : At(t, "PUT upload", "rename")
    /\ resp.req.op = "GET blob"
    /\ resp.res.status = 200
    /\ resp.res.body = <<>>

(***************************************************************************)
(* Properties of garbage collectors that run side by side (SweepSpec).     *)
(***************************************************************************)
\* thread t has left clean_storage with an error
SweepFailed(t) == inflight[t].pc = "failed"

\* C24: a blob that is gone when the garbage collector comes to examine it
\* is tolerated: no invocation of the collector stops with an error.
C24_SweepTolerates == \A t \in Threads : ~SweepFailed(t)

\* C24: both requests have removed their revision and collect; one has
\* finished its passes, the other has stopped with an error on a blob that
\* was removed after it had listed it, and its DELETE is answered 500.
C24_Witness ==
    \E t, u \in Threads :
        /\ SweepFailed(t)
        /\ inflight[u].pc = "done"
        /\ resp = Served(inflight[t].req, InternalServerError)
        /\ inflight[t].passes = GcPasses

(***************************************************************************)
(* Properties of the links that PUT and DELETE of a manifest leave (Spec). *)
(***************************************************************************)
\* the tag links and revision links of every repository
LinkFiles(f) == {p \in DOMAIN f.files : file_name(p) = <<"link">>}

\* the link files at the paths of S are in g what they are in f
SameLinks(f, g, S) ==
    \A p \in S : (is_file(f, p) <=> is_file(g, p))
                     /\ (is_file(f, p) => f.files[p] = g.files[p])

\* the step is a PUT of a manifest that is answered 201
PutsManifest ==
    /\ budget'.puts < budget.puts
    /\ resp'.req.op = "PUT manifest"
    /\ resp'.res.status = 201

\* the links that the claim lets a PUT write
PutLinks(req) ==
    {manifest_revision_path(req.image, from_sha256sum(sha256sum(req.body)))}
        \cup (IF is_valid_reference(req.ref) THEN {}
              ELSE {manifest_tag_link_path(req.image, req.ref)})

C25_Step ==
    PutsManifest
        => /\ is_file(fs', data_path(from_sha256sum(sha256sum(resp'.req.body))))
           /\ fs'.files[data_path(from_sha256sum(sha256sum(resp'.req.body)))]
                  = resp'.req.body
           /\ \A p \in PutLinks(resp'.req) :
                  is_file(fs', p) /\ fs'.files[p] = DigestOf(resp'.req.body)
           /\ SameLinks(fs, fs', (LinkFiles(fs) \cup LinkFiles(fs')) \ PutLinks(resp'.req))

\* C25: a PUT of a manifest that is answered 201 leaves the body at the data
\* path of its digest, the revision link with the digest, the tag link with
\* the digest if and only if the reference does not parse as a digest, and
\* every other tag link and revision link of every repository as it was.
C25_PutManifestLinks == [][C25_Step]_vars

\* C25: M2 was put under the tag v1 of app; the tag names M2, and the
\* revision M1 of app, put before, is still there.
C25_Witness ==
    /\ resp.req.op = "PUT manifest"
    /\ resp.req.image = <<"app">>
    /\ resp.req.ref = <<"v1">>
    /\ resp.req.body = <<"M2">>
    /\ resp.res.status = 201
    /\ fs.files[manifest_tag_link_path(<<"app">>, <<"v1">>)] = DigestOf(<<"M2">>)
    /\ is_file(fs, manifest_revision_path(<<"app">>, from_sha256sum(sha256sum(<<"M1">>))))

\* the step is a DELETE of a manifest that is answered 202
DeletesRevision ==
    /\ budget'.deletes < budget.deletes
    /\ resp'.req.op = "DELETE manifest"
    /\ resp'.res.status = 202

\* the tag links of the repository that name the digest
TagLinksTo(f, image, digest) ==
    {p \in LinkFiles(f) : /\ IsUnder(p, tags_path(image))
                          /\ p = manifest_tag_link_path(image,
                                                        file_name(parent(parent(p))))
                          /\ f.files[p] = digest}

\* the links that the claim lets a DELETE remove
DeletedLinks(f, req) ==
    TagLinksTo(f, req.image, req.ref)
        \cup {manifest_revision_path(req.image, from_str(req.ref).v)}

C26_Step ==
    DeletesRevision
        => /\ \A p \in DeletedLinks(fs, resp'.req) : ~exists(fs', p)
           /\ TagLinksTo(fs', resp'.req.image, resp'.req.ref) = {}
           /\ SameLinks(fs, fs',
                        (LinkFiles(fs) \cup LinkFiles(fs')) \ DeletedLinks(fs, resp'.req))

\* C26: a DELETE of a manifest that is answered 202 leaves no tag of the
\* repository that named the digest and no revision link of the digest, and
\* leaves every other tag and revision of the repository and every tag and
\* revision of every other repository as it was.
C26_DeleteManifestLinks == [][C26_Step]_vars

\* C26: M1 was deleted from app and the answer is 202; the revision M1 and
\* every tag that named it are gone, and the tag v1 of app, which names M2,
\* is still there.
C26_Witness ==
    /\ resp.req.op = "DELETE manifest"
    /\ resp.req.image = <<"app">>
    /\ resp.req.ref = DigestOf(<<"M1">>)
    /\ resp.res.status = 202
    /\ ~exists(fs, manifest_revision_path(<<"app">>, from_sha256sum(sha256sum(<<"M1">>))))
    /\ is_file(fs, manifest_tag_link_path(<<"app">>, <<"v1">>))
    /\ fs.files[manifest_tag_link_path(<<"app">>, <<"v1">>)] = DigestOf(<<"M2">>)

(***************************************************************************)
(* Properties of the upload endpoints behind the dispatcher                *)
(* (DispatchSpec).                                                         *)
(***************************************************************************)
\* the request that was answered is for an upload session, and the
\* dispatcher hands it to the handler of its method
SessionRequest(r) ==
    /\ r.req.endpoint = "blobs/uploads"
    /\ r.req.method \in {"GET", "PATCH", "PUT", "DELETE"}
    /\ (~r.req.need_auth \/ r.req.token = "user")
    /\ IsUuid(r.req.ref)

\* the session file of the request
SessionPath(r) == upload_storage_path(r.req.image, r.req.ref)

C27_Step ==
    (resp = Started /\ resp' # Started /\ SessionRequest(resp'))
        => /\ (resp'.req.method = "DELETE" /\ is_file(fs, SessionPath(resp')))
                  => /\ resp'.res.status = 204
                     /\ fs' = remove_file(fs, SessionPath(resp'))
           /\ ~exists(fs, SessionPath(resp'))
                  => /\ resp'.res.status = 404
                     /\ resp'.res.code = "BLOB_UNKNOWN"
                     /\ fs' = fs

\* C27: DELETE of an open upload session removes the session file and is
\* answered 204; GET, PATCH, PUT and DELETE of a session that has no file
\* are answered 404 BLOB_UNKNOWN and change nothing in the storage.
C27_SessionLifecycle == [][C27_Step]_vars

\* C27: the session u1 of app was cancelled: the answer is 204 and the file
\* is gone.
C27_Witness ==
    /\ resp # Started
    /\ SessionRequest(resp)
    /\ resp.req.method = "DELETE"
    /\ resp.req.ref = Uuids[1]
    /\ resp.res.status = 204
    /\ ~exists(fs, SessionPath(resp))

(***************************************************************************)
(* Properties of an upload request that is cut off (ConcSpec): a thread    *)
(* that takes no further step is a request that was cut off.               *)
(***************************************************************************)
\* thread t is the only one that serves a request
Alone(t) == \A u \in Threads \ {t} : inflight[u].pc = "idle"

\* thread t serves a PATCH or a PUT of a session whose file exists, and
\* takes the step
UploadStep(t) ==
    /\ inflight[t].req.op \in {"PATCH", "PUT upload"}
    /\ inflight'[t] # inflight[t]
    /\ Alone(t)
    /\ is_file(fs, UploadPath(t))

\* the bytes of the upload of thread t: those of the session file, and the
\* body of the request when it is not yet appended
Uploaded(t) ==
    IF inflight[t].pc = "start" THEN fs.files[UploadPath(t)] \o inflight[t].req.body
    ELSE fs.files[UploadPath(t)]

C28_Step ==
    \A t \in Threads :
        UploadStep(t)
            => \/ is_file(fs', UploadPath(t)) /\ fs'.files[UploadPath(t)] = Uploaded(t)
               \/ /\ inflight[t].req.op = "PUT upload"
                  /\ is_file(fs', Dest(t))
                  /\ fs'.files[Dest(t)] = Uploaded(t)

\* C28: whatever step a PATCH or a PUT of an upload is cut off at, the bytes
\* uploaded so far are in the session file, which still takes PATCH and PUT,
\* or, once the finalization has renamed it, in the blob at its data path.
C28_CutOffKeepsBytes == [][C28_Step]_vars

\* C28: a PUT with the byte b of the session that held a has renamed the
\* file and not yet answered; the session file is gone and the blob holds ab.
C28_Witness ==
    \E t \in Threads :
        /\ At(t, "PUT upload", "respond")
        /\ Alone(t)
        /\ ~exists(fs, UploadPath(t))
        /\ is_file(fs, Dest(t))
        /\ fs.files[Dest(t)] = <<"a", "b">>

(***************************************************************************)
(* Properties of one run of the garbage collector on its own (QuerySpec).  *)
(***************************************************************************)
\* the blobs whose <hex> directory is under blobs/sha256
RemainingBlobs(f) ==
    {from_sha256sum(file_name(d)) :
        d \in {e \in f.dirs : parent(parent(e)) = join(BlobsDir, <<"sha256">>)}}

\* the garbage collector has run and returned Ok
Swept == resp.req.op = "clean_storage" /\ resp.res.ok

\* C29: after a run of the garbage collector that comes to its end, every
\* blob directory that remains is the empty blob or is live: a tag target,
\* a revision, or reachable from one through the manifest graph.
C29_NoGarbageRemains == Swept => \A b \in RemainingBlobs(fs) : Live(fs, b)

\* C29: the garbage collector has run on a store that held the blob a; a is
\* gone, and a blob that is not the empty blob remains.
C29_Witness ==
    /\ Swept
    /\ ~HasBlob(fs, from_sha256sum(sha256sum(<<"a">>)))
    /\ \E b \in RemainingBlobs(fs) : ~is_empty_ref(b)

\* the step is a run of the garbage collector, whatever its outcome
Sweeps == resp = Started /\ resp'.req.op = "clean_storage"

\* the <hex> directories of the blobs
BlobDirs(f) == {e \in f.dirs : parent(parent(e)) = join(BlobsDir, <<"sha256">>)}

\* the path is a blob directory of f, or under one
InBlobDir(f, p) == \E d \in BlobDirs(f) : IsUnder(p, d)

C30_Step ==
    Sweeps
        => /\ is_dir(fs', <<>>)
           /\ fs'.dirs \subseteq fs.dirs
           /\ DOMAIN fs'.files \subseteq DOMAIN fs.files
           /\ \A p \in DOMAIN fs'.files : fs'.files[p] = fs.files[p]
           /\ \A p \in DOMAIN fs.files \ DOMAIN fs'.files : InBlobDir(fs, p)
           /\ \A d \in fs.dirs \ fs'.dirs :
                  \/ InBlobDir(fs, d)
                  \/ \A p \in DOMAIN fs'.files : ~IsUnder(p, d)

\* C30: a run of the garbage collector creates and modifies nothing, removes
\* no file but those in the <hex> directories of blobs, and no directory but
\* these and directories that hold no file: the storage path, the tag links,
\* the revision links and the files of the open upload sessions stay as
\* they are.
C30_SweepsOnlyBlobs == [][C30_Step]_vars

\* C30: the garbage collector has run on a store with an open upload
\* session and a revision link; it has removed the blob b, and the session
\* file and the link are still there.
C30_Witness ==
    /\ resp.req.op = "clean_storage"
    /\ ~HasBlob(fs, from_sha256sum(sha256sum(<<"b">>)))
    /\ is_file(fs, upload_storage_path(<<"app">>, Uuids[1]))
    /\ LinkFiles(fs) # {}
    /\ is_dir(fs, <<>>)

(***************************************************************************)
(* A push in the middle of other clients' requests: the pushing client has *)
(* uploaded its blobs (each upload answered 201, the store is BlobStore),  *)
(* and then manifests are PUT and DELETEd, one request after the other,    *)
(* in the repositories of Images.  DELETE runs the garbage collector.      *)
(***************************************************************************)
PushInit ==
    /\ fs = BlobStore
    /\ resp = Started
    /\ budget = [steps |-> MaxSteps, uploads |-> 0, puts |-> MaxPuts,
                 deletes |-> MaxDeletes, minted |-> 0]
    /\ inflight = <<>>

PushNext ==
    \/ PutManifest
    \/ DeleteManifest

PushSpec == PushInit /\ [][PushNext]_vars

\* the blobs that the pushing client has uploaded to completion
PushedBlobs == {from_sha256sum(sha256sum(c)) : c \in {<<"a">>, <<"b">>, <<>>}}

\* the blobs that the manifest text names as its config and its layers
BodyRefs(manifest) ==
    IF serde_json_from_str(manifest).ok THEN ViewRefs(serde_json_from_str(manifest).v)
    ELSE {}

C31_Step ==
    (PutsManifest /\ BodyRefs(resp'.req.body) # {}
                  /\ BodyRefs(resp'.req.body) \subseteq PushedBlobs)
        => \A r \in BodyRefs(resp'.req.body) : HasBlob(fs', r)

\* C31: when the config and the layers of a manifest have all been uploaded
\* to completion before, and the PUT of the manifest is answered 201 after
\* any PUTs and DELETEs of manifests by other clients, every blob that the
\* manifest names is in the store.
C31_PushedBlobsSurvive == [][C31_Step]_vars

\* C31: the manifest M1 has been PUT and answered 201 after another
\* client's DELETE has run the garbage collector, and its config a, which
\* was uploaded before, is not in the store.
C31_Witness ==
    /\ resp.req.op = "PUT manifest"
    /\ resp.req.body = <<"M1">>
    /\ resp.res.status = 201
    /\ budget.deletes < MaxDeletes
    /\ \A r \in PushedBlobs : HasBlob(BlobStore, r)
    /\ ~HasBlob(fs, from_sha256sum(sha256sum(<<"a">>)))

(***************************************************************************)

\* the blobs that the first pass of a run on f leaves
AfterFirstPass(f, rd) == RemainingBlobs(CleanPasses(f, rd, 1).fs)

\* the blobs of f that the garbage collector decides to keep
KeptBlobs(f, rd) ==
    {b \in Range(get_blob_list(f, rd)) : Kept(b, is_blob_useless(b, f, rd))}

C32_Step ==
    Sweeps
        => /\ RemainingBlobs(fs') = AfterFirstPass(fs, resp'.req.rd)
           /\ resp'.res.ok
                  => /\ RemainingBlobs(fs') = KeptBlobs(fs, resp'.req.rd)
                     /\ KeptBlobs(fs', resp'.req.rd) = KeptBlobs(fs, resp'.req.rd)
           /\ \A rd \in ReadDirOrders :
                  RemainingBlobs(clean_storage(fs', rd).fs) = RemainingBlobs(fs')

\* C32: with no other request at work, the blobs that a run of the garbage
\* collector leaves are those that its first pass leaves (the second and
\* the third pass delete no blob); when the run comes to its end these are
\* the blobs it decided to keep at its start, and it decides the same of
\* them at its end; and a second run on the store it leaves deletes no blob.
C32_FirstPassSweepsAll == [][C32_Step]_vars

\* C32: the garbage collector has run to its end on a store from which it
\* has deleted the blob a and in which a live blob remains, so that its
\* later passes and a second run have blobs to examine.
C32_Witness ==
    /\ Swept
    /\ ~HasBlob(fs, from_sha256sum(sha256sum(<<"a">>)))
    /\ \E b \in RemainingBlobs(fs) : ~is_empty_ref(b) /\ Live(fs, b)
    /\ \A rd \in ReadDirOrders : RemainingBlobs(clean_storage(fs, rd).fs) = RemainingBlobs(fs)

(***************************************************************************)
(* Manifests of any text: put_manifest stores the body whatever it is, so  *)
(* the bodies of the PUTs are a manifest and a text that is not JSON.      *)
(***************************************************************************)
AnyBodies == {<<"M1">>, <<"a">>}

PutAnyManifest ==
    \E image \in Images, manifest \in AnyBodies :
      \E image_ref \in Tags \cup {DigestOf(manifest)} :
        /\ Spend("puts")
        /\ Respond(Request("PUT manifest", image, image_ref, manifest, <<>>),
                   put_manifest(fs, image, image_ref, manifest))

DeleteAnyManifest ==
    \E image \in Images, manifest \in AnyBodies, rd \in ReadDirOrders :
        /\ Spend("deletes")
        /\ Respond(Request("DELETE manifest", image, DigestOf(manifest), <<>>, <<>>),
                   delete_manifest(fs, image, DigestOf(manifest), rd))

AnyBodyNext ==
    \/ PutAnyManifest
    \/ DeleteAnyManifest
    \/ Startup

AnyBodySpec == Init /\ [][AnyBodyNext]_vars

\* the revision link that the request names
RequestRevision(req) == manifest_revision_path(req.image, from_str(req.ref).v)

C33_Step ==
    /\ (resp'.req.op = "DELETE manifest" /\ budget'.deletes < budget.deletes
            /\ is_file(fs, RequestRevision(resp'.req)))
           => resp'.res.status = 202
    /\ (resp'.req.op = "startup" /\ budget'.deletes < budget.deletes)
           => resp'.res.status = 200

\* C33: in every store that PUTs and DELETEs of manifests make, with any
\* body accepted by PUT, the garbage collector returns Ok: the DELETE of a
\* revision that exists is answered 202, never 500 after its links are
\* removed, and the garbage collection at startup does not panic.
C33_CollectorSucceeds == [][C33_Step]_vars

\* C33: a text that is not JSON has been PUT as a manifest and is a
\* revision of its repository; the DELETE of another revision has removed
\* the links of that revision and is answered 500.
C33_Witness ==
    /\ resp.req.op = "DELETE manifest"
    /\ resp.res = InternalServerError
    /\ resp.req.ref = DigestOf(<<"M1">>)
    /\ ~is_file(fs, RequestRevision(resp.req))
    /\ HasBlob(fs, from_sha256sum(sha256sum(<<"M1">>)))
    /\ \E image \in Images :
           is_file(fs, manifest_revision_path(image, from_sha256sum(sha256sum(<<"a">>))))

=============================================================================
